---- MODULE Spec2Model ----
(***************************************************************************)
(* Model of the free-listing quota gate (free-ad settings handlers and the *)
(* gate inside createProperty), of the token middleware                     *)
(* (server/middleware/auth.ts), of listing moderation and the public        *)
(* listing query, of the blog handlers and of the front end's apiRequest.   *)
(*                                                                          *)
(* Time is counted in whole days; a Date is the number of days since the    *)
(* start of the run, and the clock advances in steps of 30 days.            *)
(***************************************************************************)
EXTENDS Integers, Sequences, FiniteSets, TLC

\* ------------------------------------------------------------------------
\* Bounds of the model
\* ------------------------------------------------------------------------
MaxCalls == 3
MaxCallsWithUpdates == 2
MaxCallsWithMail == 1
MaxRecords == 2
MaxDocs == 2
MaxPosts == 2
MaxTicks == 2
NumReq == 2

\* ------------------------------------------------------------------------
\* Program constants
\* ------------------------------------------------------------------------
DefaultMaxFreeAds == 2
DefaultNumberOfDays == 30
GateFallbackLimit == 5
GateFallbackDays == 30

Users == {"u1", "u2"}
NoUser == "undefined"

\* stored packageId field: "absent" (no field), "null", or an id
NoPackage == "absent"

\* JSON booleans / missing field for isActive
Truthy(v) == v = "true"

TickSteps == {30}

VARIABLES
    properties,   \* the properties collection
    settings,     \* the free_ad_settings singleton (_id "default")
    now,          \* the clock, in days
    ticks,        \* how often the clock has advanced
    nextId,       \* the next insertedId
    calls,        \* createProperty requests received so far
    callBudget,   \* createProperty requests the run is cut off after
    freeCalls,    \* per user: createProperty calls made without a packageId
    resp,         \* the response written by the handler that ran last
    inflight,     \* createProperty requests suspended at an await
    auth,         \* the request seen by a guard of middleware/auth.ts and its outcome
    api,          \* the apiRequest call of the front end and its fetch attempts
    freeAdPosts,  \* the free_ad_posts collection, in insertion order
    listed,       \* the answer of the last getProperties call
    blog          \* the blog_posts collection and the blog handlers' requests

\* the state of the handlers and of the client that are modelled after the
\* quota gate and the token middleware
OtherVars == <<api, freeAdPosts, listed, blog>>

vars == <<properties, settings, now, ticks, nextId, calls, callBudget,
          freeCalls, resp, inflight, auth, OtherVars>>

\* ------------------------------------------------------------------------
\* free_ad_settings singleton
\* ------------------------------------------------------------------------
NoSettings ==
    [exists |-> FALSE, maxFreeAdsPerMonth |-> 0, numberOfDays |-> 0,
     isActive |-> "undefined"]

SettingsDoc(max, days, active) ==
    [exists |-> TRUE, maxFreeAdsPerMonth |-> max, numberOfDays |-> days,
     isActive |-> active]

DEFAULT_SETTINGS ==
    SettingsDoc(DefaultMaxFreeAds, DefaultNumberOfDays, "true")

\* createProperty: settings used by the gate, the document or the fallback
\* literals (FREE_POST_LIMIT and FREE_POST_PERIOD_DAYS are not set in the
\* modelled deployment)
GateSettings(doc) ==
    IF doc.exists THEN doc
    ELSE SettingsDoc(GateFallbackLimit, GateFallbackDays, "true")

\* checkUserFreeAdLimit: settings used by the check endpoint
CheckSettings(doc) == IF doc.exists THEN doc ELSE DEFAULT_SETTINGS

\* ------------------------------------------------------------------------
\* createProperty helpers
\* ------------------------------------------------------------------------
\* typeof body.packageId === "string" && trim() ? trim() : undefined
PackageIdOf(raw) == IF raw \in {"absent", "blank"} THEN NoPackage ELSE raw

NewProperty(id, u, pkg, t) ==
    [id |-> id, ownerId |-> u, createdAt |-> t,
     isPaid |-> FALSE, packageId |-> pkg,
     status |-> "inactive",
     approvalStatus |-> IF pkg # NoPackage THEN "pending_approval" ELSE "pending",
     isApproved |-> FALSE]

\* the countDocuments filter of the creation gate
GateFilter(d, u, periodStart) ==
    /\ d.ownerId = u
    /\ d.createdAt >= periodStart
    /\ \/ d.packageId = "absent"
       \/ d.packageId \in {"absent", "null"}
       \/ d.isPaid = FALSE

\* the window opened at the time of the request instead of numberOfDays
\* before it
GateCounted_WindowOpensNow(props, u, s, t) ==
    {d \in props : GateFilter(d, u, t)}

GateCounted(props, u, s, t) ==
    {d \in props : GateFilter(d, u, t - s.numberOfDays)}

\* the gate applied to package requests as well
GateApplies_IgnoresPackage(s, pkg) == Truthy(s.isActive)

\* the gate applied although the system is switched off
GateApplies_IgnoresActive(s, pkg) == pkg = NoPackage

GateApplies(s, pkg) == Truthy(s.isActive) /\ pkg = NoPackage

\* the limit compared with > instead of >=
GateDenies_OffByOne(s, count) == count > s.maxFreeAdsPerMonth

\* the count compared with the window length instead of the limit
GateDenies_WrongField(s, count) == count >= s.numberOfDays

GateDenies(s, count) == count >= s.maxFreeAdsPerMonth

\* the countDocuments filter of checkUserFreeAdLimit
CheckFilter(d, u, startDate) ==
    /\ d.ownerId = u
    /\ d.createdAt >= startDate
    /\ d.isPaid # TRUE
    /\ d.packageId = "absent"

CheckCounted(props, u, s, t) ==
    {d \in props : CheckFilter(d, u, t - s.numberOfDays)}

Max(a, b) == IF a >= b THEN a ELSE b

IdsOf(S) == {d.id : d \in S}

\* ------------------------------------------------------------------------
\* The best-effort email paths
\* ------------------------------------------------------------------------
\* what happens in a try block that looks the user up and sends a mail:
\* the mail is sent, the user has no email address (or is not found), the
\* user id is no ObjectId, the lookup fails, or the mail send fails
EmailOutcomes == {"sent", "noEmail", "invalidUserId", "lookupFails", "sendFails"}
EmailDelivered == {"sent"}

\* no property id (a response that is about no listing)
NoProperty == -1

\* a route parameter that is blank or no ObjectId
InvalidId == -2

\* ------------------------------------------------------------------------
\* Responses (one record shape for every handler)
\* ------------------------------------------------------------------------
Response(op, u, pkg, status, s) ==
    [op |-> op, user |-> u, pkg |-> pkg, status |-> status,
     max |-> s.maxFreeAdsPerMonth, days |-> s.numberOfDays,
     active |-> s.isActive,
     limitReached |-> FALSE, hasFreeAdLimit |-> FALSE,
     gated |-> FALSE, used |-> 0, counted |-> {},
     canPostFree |-> FALSE, remaining |-> 0, remainingInf |-> FALSE,
     systemActive |-> FALSE, insertedId |-> 0,
     at |-> now, email |-> "none", admin |-> "none",
     propertyId |-> NoProperty, approvalStatus |-> ""]

NoResponse ==
    [Response("none", NoUser, NoPackage, 0, NoSettings) EXCEPT !.at = 0]

OwnedBy(props, u) == {d \in props : d.ownerId = u}

\* ========================================================================
\* server/middleware/auth.ts
\* ========================================================================
\* JavaScript values found in a decoded token payload: the kind of the value
\* and the text String() gives for it
Undefined == [k |-> "undefined", s |-> "undefined"]
Null == [k |-> "null", s |-> "null"]
Str(x) == [k |-> "string", s |-> x]
NumV(x) == [k |-> "number", s |-> x]
True == [k |-> "boolean", s |-> "true"]

Nullish(v) == v.k \in {"undefined", "null"}
Falsy(v) ==
    \/ Nullish(v)
    \/ (v.k = "string" /\ v.s = "")
    \/ (v.k = "number" /\ v.s = "0")
    \/ (v.k = "boolean" /\ v.s = "false")
\* String(v)
String(v) == Str(v.s)

\* String.prototype.toLowerCase on the texts that occur
Lower(x) ==
    CASE x = "Bearer" -> "bearer"
      [] x = "BEARER" -> "bearer"
      [] x = "Basic" -> "basic"
      [] x = "Admin" -> "admin"
      [] x = "STAFF" -> "staff"
      [] x = "Seller" -> "seller"
      [] x = "Super_Admin" -> "super_admin"
      [] OTHER -> x

\* a header or cookie text: pad says whether white space surrounds the core
Tok(pad, core) == [pad |-> pad, core |-> core]
NoText == Tok(FALSE, "")
Trim(t) == Tok(FALSE, t.core)
NonEmpty(t) == t.pad \/ t.core # ""

\* the Authorization header: "<scheme>" or "<scheme> <rest>"
Authorization(scheme, sep, rest) == [scheme |-> scheme, sep |-> sep, rest |-> rest]
NoAuthorization == Authorization("", FALSE, NoText)

\* pickToken: null is [isNull |-> TRUE]
Picked(t) == [isNull |-> FALSE, text |-> t.core]
PickedNull == [isNull |-> TRUE, text |-> ""]

pickToken(req) ==
    IF Lower(req.authorization.scheme) = "bearer" /\ req.authorization.sep
    THEN Picked(Trim(req.authorization.rest))
    ELSE IF NonEmpty(req.xAuthToken) THEN Picked(Trim(req.xAuthToken))
    ELSE IF NonEmpty(req.xAdminToken) THEN Picked(Trim(req.xAdminToken))
    ELSE LET cookieTok ==
                 IF NonEmpty(req.cookieToken) THEN req.cookieToken
                 ELSE IF NonEmpty(req.cookieAuthToken) THEN req.cookieAuthToken
                 ELSE req.cookieAdminToken
         IN IF NonEmpty(cookieTok) THEN Picked(Trim(cookieTok)) ELSE PickedNull

\* !token in verifyAndAttach
NoToken(t) == t.isNull \/ t.text = ""

IdPaths == <<"userId", "id", "_id", "user.id", "user._id", "sub">>
TypePaths == <<"userType", "type", "accountType", "user.userType", "user.type",
               "user.accountType">>
RolePaths == <<"role", "staffRole", "permissionRole", "user.role">>
FlagPaths == <<"email", "user.email", "isAdmin", "admin", "user.isAdmin">>
AllPaths == IdPaths \o TypePaths \o RolePaths \o FlagPaths
PathSet(paths) == {paths[i] : i \in 1..Len(paths)}

\* a ?? b ?? ... : the first value that is neither undefined nor null
RECURSIVE FirstNonNullish(_, _, _)
FirstNonNullish(p, paths, i) ==
    IF i > Len(paths) THEN Undefined
    ELSE IF ~Nullish(p[paths[i]]) THEN p[paths[i]]
    ELSE FirstNonNullish(p, paths, i + 1)

idFromPayload(p) ==
    LET id == FirstNonNullish(p, IdPaths, 1)
    IN IF Falsy(id) THEN Null ELSE String(id)

getUserTypeFromPayload(p) ==
    LET t == FirstNonNullish(p, TypePaths, 1)
    IN IF Falsy(t) THEN Undefined ELSE Str(Lower(String(t).s))

getRoleFromPayload(p) ==
    LET r == FirstNonNullish(p, RolePaths, 1)
    IN IF Falsy(r) THEN Undefined ELSE Str(Lower(String(r).s))

getIsAdminBool(p) ==
    \/ ~Falsy(p["isAdmin"])
    \/ p["admin"] = True
    \/ p["user.isAdmin"] = True
    \/ getUserTypeFromPayload(p).s \in {"admin", "staff"}

\* decoded?.email || decoded?.user?.email
EmailOf(p) == IF ~Falsy(p["email"]) THEN p["email"] ELSE p["user.email"]

\* jwt.verify: the credentials signed with JWT_SECRET and not expired
ValidTokens == {"tA", "tB", "tC", "tD", "tE", "tF"}

NothingAttached ==
    [userId |-> Undefined, userType |-> Undefined, role |-> Undefined,
     email |-> Undefined, isAdmin |-> Undefined]

Outcome(ok, status, error, attached) ==
    [ok |-> ok, status |-> status, error |-> error, attached |-> attached]

\* verifyAndAttach(req, res); p is the payload the picked token decodes to
verifyAndAttach(req, p) ==
    LET token == pickToken(req)
    IN IF NoToken(token)
       THEN Outcome(FALSE, 401, "Access token required", NothingAttached)
       ELSE IF token.text \notin ValidTokens
       THEN Outcome(FALSE, 401, "Invalid or expired token", NothingAttached)
       ELSE LET uid == idFromPayload(p)
            IN IF Falsy(uid)
               THEN Outcome(FALSE, 401, "Invalid token (no user id)",
                            NothingAttached)
               ELSE Outcome(TRUE, 0, "",
                        [userId |-> uid,
                         userType |-> getUserTypeFromPayload(p),
                         role |-> getRoleFromPayload(p),
                         email |-> EmailOf(p),
                         isAdmin |-> IF getIsAdminBool(p) THEN True
                                     ELSE [k |-> "boolean", s |-> "false"]])

\* what a guard leaves behind: the response written (status 0: none) and
\* how often next() was called
Handled(guard, permission, req, p, r, status, error, nextCalls) ==
    [guard |-> guard, permission |-> permission, req |-> req, payload |-> p,
     token |-> pickToken(req), ok |-> r.ok,
     status |-> status, error |-> error, nextCalls |-> nextCalls,
     attached |-> r.attached]

Denied(guard, permission, req, p, r, status, error) ==
    Handled(guard, permission, req, p, r, status, error, 0)

Passed(guard, permission, req, p, r) ==
    Handled(guard, permission, req, p, r, 0, "", 1)

\* a guard that goes on to next() after the resolver has answered
ShortCircuit_CallsNext(guard, permission, req, p, r) ==
    Handled(guard, permission, req, p, r, r.status, r.error, 1)

\* the resolver has already written its 401
ShortCircuit(guard, permission, req, p, r) ==
    Handled(guard, permission, req, p, r, r.status, r.error, 0)

\* (req.userType || "").toLowerCase()
LowerOrEmpty(v) == IF Falsy(v) THEN "" ELSE Lower(v.s)

authenticateTokenResult(req, p) ==
    LET r == verifyAndAttach(req, p)
    IN IF r.ok THEN Passed("authenticateToken", "", req, p, r)
       ELSE ShortCircuit("authenticateToken", "", req, p, r)

\* the explicit isAdmin claim left out of the decision
requireAdminResult_IgnoresFlag(req, p) ==
    LET r == verifyAndAttach(req, p)
        userType == LowerOrEmpty(r.attached.userType)
        role == LowerOrEmpty(r.attached.role)
        isAdminType == userType \in {"admin", "staff"}
        isPrivRole == role \in {"super_admin", "admin"}
    IN IF ~r.ok THEN ShortCircuit("requireAdmin", "", req, p, r)
       ELSE IF ~isAdminType /\ ~isPrivRole
       THEN Denied("requireAdmin", "", req, p, r, 403, "Admin access required")
       ELSE Passed("requireAdmin", "", req, p, r)

requireAdminResult(req, p) ==
    LET r == verifyAndAttach(req, p)
        userType == LowerOrEmpty(r.attached.userType)
        role == LowerOrEmpty(r.attached.role)
        isAdmin == ~Falsy(r.attached.isAdmin)
        isAdminType == userType \in {"admin", "staff"}
        isPrivRole == role \in {"super_admin", "admin"}
    IN IF ~r.ok THEN ShortCircuit("requireAdmin", "", req, p, r)
       ELSE IF ~isAdminType /\ ~isPrivRole /\ ~isAdmin
       THEN Denied("requireAdmin", "", req, p, r, 403, "Admin access required")
       ELSE Passed("requireAdmin", "", req, p, r)

requireSellerOrAgentResult(req, p) ==
    LET r == verifyAndAttach(req, p)
        userType == LowerOrEmpty(r.attached.userType)
    IN IF ~r.ok THEN ShortCircuit("requireSellerOrAgent", "", req, p, r)
       ELSE IF userType \notin {"seller", "agent", "admin", "staff"}
       THEN Denied("requireSellerOrAgent", "", req, p, r, 403,
                   "Seller or agent access required")
       ELSE Passed("requireSellerOrAgent", "", req, p, r)

\* the isAdmin claim accepted in place of an account type
requireBuyerResult_AdminFlagPasses(req, p) ==
    LET r == verifyAndAttach(req, p)
        userType == LowerOrEmpty(r.attached.userType)
    IN IF ~r.ok THEN ShortCircuit("requireBuyer", "", req, p, r)
       ELSE IF /\ userType \notin {"seller", "user", "agent", "customer",
                                    "admin", "staff"}
               /\ Falsy(r.attached.isAdmin)
       THEN Denied("requireBuyer", "", req, p, r, 401,
                   "Login with a user/seller account")
       ELSE Passed("requireBuyer", "", req, p, r)

requireBuyerResult(req, p) ==
    LET r == verifyAndAttach(req, p)
        userType == LowerOrEmpty(r.attached.userType)
    IN IF ~r.ok THEN ShortCircuit("requireBuyer", "", req, p, r)
       ELSE IF userType \notin {"seller", "user", "agent", "customer", "admin",
                                "staff"}
       THEN Denied("requireBuyer", "", req, p, r, 401,
                   "Login with a user/seller account")
       ELSE Passed("requireBuyer", "", req, p, r)

\* a value found under a key of the rolePermissions object literal
Array(items) == [kind |-> "array", items |-> items]
NotAnArray == [kind |-> "object", items |-> {}]
Missing == [kind |-> "undefined", items |-> {}]

\* the members every object literal inherits from Object.prototype whose
\* names are lower-case texts (the role is lower-cased before the lookup)
InheritedMembers == {"constructor", "__proto__"}

\* rolePermissions[role]
rolePermissions(role) ==
    CASE role = "super_admin" -> Array({"*"})
      [] role = "content_manager" ->
            Array({"content.view", "content.create", "content.manage",
                   "blog.manage", "blog.view"})
      [] role = "sales_manager" ->
            Array({"users.view", "sellers.manage", "sellers.verify",
                   "sellers.view", "payments.view", "packages.manage",
                   "ads.view", "analytics.view"})
      [] role = "support_executive" ->
            Array({"users.view", "support.view", "reports.view",
                   "content.view"})
      [] role = "admin" ->
            Array({"content.view", "users.view", "ads.view", "analytics.view"})
      [] role \in InheritedMembers -> NotAnArray
      [] OTHER -> Missing

\* x || []
OrEmptyArray(x) == IF x.kind = "undefined" THEN Array({}) ELSE x

\* perms.includes is not a function: the guard throws, it writes no response
\* and does not call next()
Thrown(guard, permission, req, p, r) ==
    Handled(guard, permission, req, p, r, 0,
            "TypeError: perms.includes is not a function", 0)

\* the permission table consulted for every account type
requirePermissionResult_TableForAnyType(permission, req, p) ==
    LET r == verifyAndAttach(req, p)
        userType == LowerOrEmpty(r.attached.userType)
        role == LowerOrEmpty(r.attached.role)
        perms == OrEmptyArray(rolePermissions(role))
    IN IF ~r.ok THEN ShortCircuit("requirePermission", permission, req, p, r)
       ELSE IF userType = "admin"
       THEN Passed("requirePermission", permission, req, p, r)
       ELSE IF perms.kind # "array"
       THEN Thrown("requirePermission", permission, req, p, r)
       ELSE IF "*" \in perms.items \/ permission \in perms.items
       THEN Passed("requirePermission", permission, req, p, r)
       ELSE Denied("requirePermission", permission, req, p, r, 403,
                   "Permission required: " \o permission)

\* an admin account looked up in the table like a staff account
requirePermissionResult_AdminByTable(permission, req, p) ==
    LET r == verifyAndAttach(req, p)
        userType == LowerOrEmpty(r.attached.userType)
        role == LowerOrEmpty(r.attached.role)
        perms == OrEmptyArray(rolePermissions(role))
    IN IF ~r.ok THEN ShortCircuit("requirePermission", permission, req, p, r)
       ELSE IF userType \in {"admin", "staff"} /\ perms.kind # "array"
       THEN Thrown("requirePermission", permission, req, p, r)
       ELSE IF /\ userType \in {"admin", "staff"}
               /\ ("*" \in perms.items \/ permission \in perms.items)
       THEN Passed("requirePermission", permission, req, p, r)
       ELSE Denied("requirePermission", permission, req, p, r, 403,
                   "Permission required: " \o permission)

requirePermissionResult(permission, req, p) ==
    LET r == verifyAndAttach(req, p)
        userType == LowerOrEmpty(r.attached.userType)
        role == LowerOrEmpty(r.attached.role)
        perms == OrEmptyArray(rolePermissions(role))
    IN IF ~r.ok THEN ShortCircuit("requirePermission", permission, req, p, r)
       ELSE IF userType = "admin"
       THEN Passed("requirePermission", permission, req, p, r)
       ELSE IF userType = "staff" /\ perms.kind # "array"
       THEN Thrown("requirePermission", permission, req, p, r)
       ELSE IF /\ userType = "staff"
               /\ ("*" \in perms.items \/ permission \in perms.items)
       THEN Passed("requirePermission", permission, req, p, r)
       ELSE Denied("requirePermission", permission, req, p, r, 403,
                   "Permission required: " \o permission)

\* ------------------------------------------------------------------------
\* the requests and payloads the guards are run on
\* ------------------------------------------------------------------------
EmptyPayload == [x \in PathSet(AllPaths) |-> Undefined]

BasePayload ==
    [EmptyPayload EXCEPT !["userId"] = Str("u1"), !["userType"] = Str("seller"),
                         !["email"] = Str("u1@example.com")]

\* header texts arrive without surrounding white space; cookie texts are
\* URL-decoded and can be blank
Authorizations ==
    {NoAuthorization,
     Authorization("Bearer", TRUE, Tok(FALSE, "tA")),
     Authorization("bearer", TRUE, Tok(FALSE, "tA")),
     Authorization("BEARER", TRUE, Tok(TRUE, "tA")),
     Authorization("Bearer", TRUE, Tok(FALSE, "bad")),
     Authorization("Bearer", FALSE, NoText),
     Authorization("Basic", TRUE, Tok(FALSE, "tA"))}

Requests ==
    [authorization : Authorizations,
     xAuthToken : {NoText, Tok(FALSE, "tB"), Tok(FALSE, "bad")},
     xAdminToken : {NoText, Tok(FALSE, "tC")},
     cookieToken : {NoText, Tok(TRUE, ""), Tok(FALSE, "tD"), Tok(TRUE, "tD")},
     cookieAuthToken : {NoText, Tok(FALSE, "tE")},
     cookieAdminToken : {NoText, Tok(FALSE, "tF")}]

BaseRequest ==
    [authorization |-> Authorization("Bearer", TRUE, Tok(FALSE, "tA")),
     xAuthToken |-> NoText, xAdminToken |-> NoText, cookieToken |-> NoText,
     cookieAuthToken |-> NoText, cookieAdminToken |-> NoText]

IdValues == {Undefined, Null, Str(""), Str("a"), NumV("7")}

IdPayloads ==
    {[x \in PathSet(AllPaths) |->
         IF x \in PathSet(IdPaths) THEN ids[x] ELSE BasePayload[x]] :
       ids \in [PathSet(IdPaths) -> IdValues]}

RolePayloads ==
    {[BasePayload EXCEPT !["userType"] = t, !["role"] = r, !["isAdmin"] = a] :
        t \in {Undefined, Str("admin"), Str("Admin"), Str("staff"),
               Str("seller"), Str("user"), Str("agent"), Str("customer"),
               Str("guest")},
        r \in {Undefined, Str("super_admin"), Str("sales_manager"),
               Str("content_manager"), Str("admin"), Str("other"),
               Str("constructor")},
        a \in {Undefined, True}}

AuthInputs ==
    (Requests \X {BasePayload})
        \cup ({BaseRequest} \X (IdPayloads \cup RolePayloads))

PermissionNames == {"sellers.manage", "content.manage", "reports.export"}

NoAuth ==
    Handled("none", "", BaseRequest, EmptyPayload,
            Outcome(FALSE, 0, "", NothingAttached), 0, "", 0)

QuotaVars ==
    <<properties, settings, now, ticks, nextId, calls, callBudget, freeCalls,
      resp, inflight, OtherVars>>

authenticateToken(req, p) ==
    /\ auth.guard = "none"
    /\ auth' = authenticateTokenResult(req, p)
    /\ UNCHANGED QuotaVars

requireAdmin(req, p) ==
    /\ auth.guard = "none"
    /\ auth' = requireAdminResult(req, p)
    /\ UNCHANGED QuotaVars

requireSellerOrAgent(req, p) ==
    /\ auth.guard = "none"
    /\ auth' = requireSellerOrAgentResult(req, p)
    /\ UNCHANGED QuotaVars

requireBuyer(req, p) ==
    /\ auth.guard = "none"
    /\ auth' = requireBuyerResult(req, p)
    /\ UNCHANGED QuotaVars

requirePermission(permission, req, p) ==
    /\ auth.guard = "none"
    /\ auth' = requirePermissionResult(permission, req, p)
    /\ UNCHANGED QuotaVars

\* ========================================================================
\* client/src/hooks/useAdminCounts.ts: apiRequest
\* ========================================================================
\* API_CONFIG.retryAttempts
retryAttempts == 2

\* what one fetch attempt ends with: an HTTP response, or an exception with
\* a name and a message
HttpResponse(status, body) ==
    [kind |-> "response", status |-> status, body |-> body,
     name |-> "", message |-> ""]
FetchError(name, message) ==
    [kind |-> "error", status |-> 0, body |-> "", name |-> name,
     message |-> message]

\* the response bodies: JSON text, other text, blank, a body that cannot be
\* read
Bodies == {"json", "text", "blank", "unreadable"}

\* the exceptions: the controller aborts without a reason, the controller
\* aborts with new Error("timeout"), the browsers' fetch failures, a failure
\* of another kind
FetchErrors ==
    {FetchError("AbortError", "The operation was aborted."),
     FetchError("Error", "timeout"),
     FetchError("TypeError", "Failed to fetch"),
     FetchError("Error", "Network Error"),
     FetchError("TypeError", "Load failed"),
     FetchError("SyntaxError", "Invalid URL")}

FetchOutcomes ==
    {HttpResponse(st, b) : st \in {200, 404, 500}, b \in Bodies}
        \cup FetchErrors

\* String(error?.message || "").toLowerCase()
LowerMessage(m) ==
    CASE m = "The operation was aborted." -> "the operation was aborted."
      [] m = "Failed to fetch" -> "failed to fetch"
      [] m = "Network Error" -> "network error"
      [] m = "Load failed" -> "load failed"
      [] m = "Invalid URL" -> "invalid url"
      [] OTHER -> m

\* msg.includes(needle), on the lower-cased messages above
Includes(msg, needle) ==
    CASE needle = "timeout" -> msg \in {"timeout"}
      [] needle = "failed to fetch" -> msg \in {"failed to fetch"}
      [] needle = "network error" -> msg \in {"network error"}
      [] OTHER -> FALSE

retriable(error) ==
    LET msg == LowerMessage(error.message)
    IN \/ error.name = "AbortError"
       \/ Includes(msg, "timeout")
       \/ Includes(msg, "failed to fetch")
       \/ Includes(msg, "network error")

\* the retry limit compared with <= instead of <
ShouldRetry_OffByOne(error, retryCount) ==
    retriable(error) /\ retryCount <= retryAttempts

ShouldRetry(error, retryCount) ==
    retriable(error) /\ retryCount < retryAttempts

\* response.ok
Ok(status) == status >= 200 /\ status <= 299

\* the safe parse of the body
Parsed(body) ==
    CASE body = "json" -> "object"
      [] body = "text" -> "raw"
      [] OTHER -> "empty object"

NoResult == [returned |-> FALSE, data |-> "", status |-> 0, ok |-> FALSE]
Result(data, status, ok) ==
    [returned |-> TRUE, data |-> data, status |-> status, ok |-> ok]

\* pc: idle, fetch (an attempt is under way), delay (waiting retryDelay),
\* done; log: what the attempts made so far ended with
NoApiCall ==
    [pc |-> "idle", retryCount |-> 0, log |-> <<>>, result |-> NoResult]

ClientFrame == UNCHANGED <<properties, settings, now, ticks, nextId, calls,
                           callBudget, freeCalls, resp, inflight, auth,
                           freeAdPosts, listed, blog>>

\* apiRequest(endpoint, options) is called (retryCount = 0)
apiRequest ==
    /\ api.pc = "idle"
    /\ api' = [api EXCEPT !.pc = "fetch"]
    /\ ClientFrame

\* the awaited fetch settles with outcome o
FetchSettles(o) ==
    /\ api.pc = "fetch"
    /\ ClientFrame
    /\ LET log == Append(api.log, o)
       IN IF o.kind = "response"
          THEN api' = [api EXCEPT !.pc = "done", !.log = log,
                         !.result = Result(Parsed(o.body), o.status,
                                           Ok(o.status))]
          ELSE IF ShouldRetry(o, api.retryCount)
          THEN api' = [api EXCEPT !.pc = "delay", !.log = log]
          ELSE api' = [api EXCEPT !.pc = "done", !.log = log,
                         !.result = Result("null", 0, FALSE)]

\* retryDelay has passed: apiRequest(endpoint, options, retryCount + 1)
RetryAfterDelay ==
    /\ api.pc = "delay"
    /\ api' = [api EXCEPT !.pc = "fetch", !.retryCount = @ + 1]
    /\ ClientFrame

\* ------------------------------------------------------------------------
\* The blog handlers: documents, slugs and responses
\* ------------------------------------------------------------------------
\* authorId of a post that an administrator creates (rawUserId || "admin")
Admin == "admin"

\* publishedAt: undefined
NoDate == -1

\* a slug is its base followed by the counters appended to it: <<"a">> is
\* "a", <<"a", 1>> is "a-1", <<"a", 1, 1>> is "a-1-1"
SlugInputs == {<<"a">>, <<"a", 1>>}

\* `${slug}-${counter}`
Suffixed(slug, counter) == Append(slug, counter)

BlogPost(id, slug, author, status, featured, publishedAt, t) ==
    [id |-> id, slug |-> slug, author |-> author, status |-> status,
     featured |-> featured, publishedAt |-> publishedAt, title |-> "t0",
     createdAt |-> t, updatedAt |-> t]

\* findOne({slug})
SlugTaken(posts, slug) == \E p \in posts : p.slug = slug

\* the uniqueness loop, run without another request in between
RECURSIVE UniqueSlug(_, _, _, _)
UniqueSlug(posts, slug, finalSlug, counter) ==
    IF SlugTaken(posts, finalSlug)
    THEN UniqueSlug(posts, slug, Suffixed(slug, counter), counter + 1)
    ELSE finalSlug

BlogResponse(op, u, postId, status, error) ==
    [op |-> op, user |-> u, postId |-> postId, status |-> status,
     error |-> error]

NoBlogResponse == BlogResponse("none", NoUser, NoProperty, 0, "")

\* a create request: idle, lookup (about to run findOne({slug: finalSlug})),
\* insert (the loop has ended, insertOne is next)
IdleBlogRequest ==
    [pc |-> "idle", op |-> "none", author |-> NoUser, status |-> "",
     featured |-> FALSE, slug |-> <<>>, finalSlug |-> <<>>, counter |-> 1]

NoBlog ==
    [posts |-> {}, nextId |-> 1,
     reqs |-> [r \in 1..NumReq |-> IdleBlogRequest],
     resp |-> NoBlogResponse]

BlogFrame == UNCHANGED <<properties, settings, now, ticks, nextId, calls,
                         callBudget, freeCalls, resp, inflight, auth, api,
                         freeAdPosts, listed>>

\* findOne({_id: new ObjectId(postId), "author.id": userId})
OwnPost(posts, postId, u) == {p \in posts : p.id = postId /\ p.author = u}

\* {$set: update}: the fields of the update replace those of the document
SetFields(post, update) ==
    [f \in DOMAIN post |-> IF f \in DOMAIN update THEN update[f] ELSE post[f]]

\* delete update[f]
Delete(update, fields) == [f \in DOMAIN update \ fields |-> update[f]]

\* {...object, [field]: value}
With(object, field, value) ==
    [f \in DOMAIN object \cup {field} |->
        IF f = field THEN value ELSE object[f]]

\* the post with the given _id, as a set (empty when there is none)
PostWithId(posts, postId) == {p \in posts : p.id = postId}

Answer(response) == blog' = [blog EXCEPT !.resp = response]

\* ------------------------------------------------------------------------
\* createBlogPost and createSellerBlogPost, run to completion
\* ------------------------------------------------------------------------
\* complete: the body carries a title and a content
createBlogPost(complete, slug, status, featured) ==
    /\ BlogFrame
    /\ IF ~complete
       THEN Answer(BlogResponse("createBlogPost", Admin, NoProperty, 400,
                                "Title and content are required"))
       ELSE /\ blog.nextId <= MaxPosts
            /\ LET finalSlug == UniqueSlug(blog.posts, slug, slug, 1)
                   post == BlogPost(blog.nextId, finalSlug, Admin, status,
                                    featured,
                                    IF status = "published" THEN now
                                    ELSE NoDate,
                                    now)
               IN blog' = [blog EXCEPT
                     !.posts = @ \cup {post}, !.nextId = @ + 1,
                     !.resp = BlogResponse("createBlogPost", Admin,
                                           blog.nextId, 200, "")]

createSellerBlogPost(u, slug, submit) ==
    /\ BlogFrame
    /\ blog.nextId <= MaxPosts
    /\ LET finalSlug == UniqueSlug(blog.posts, slug, slug, 1)
           post == BlogPost(blog.nextId, finalSlug, u,
                            IF submit THEN "pending_review" ELSE "draft",
                            FALSE, NoDate, now)
       IN blog' = [blog EXCEPT
             !.posts = @ \cup {post}, !.nextId = @ + 1,
             !.resp = BlogResponse("createSellerBlogPost", u, blog.nextId,
                                   200, "")]

\* ------------------------------------------------------------------------
\* createBlogPost and createSellerBlogPost, suspended at their awaits
\* ------------------------------------------------------------------------
\* posts inserted so far and requests that will still insert one
PostsBegun ==
    (blog.nextId - 1)
    + Cardinality({r \in 1..NumReq : blog.reqs[r].pc # "idle"})

\* the handler has run up to its first findOne({slug: finalSlug})
ReceiveCreate(r, op, author, slug, status, featured) ==
    /\ BlogFrame
    /\ blog.reqs[r].pc = "idle"
    /\ PostsBegun < MaxPosts
    /\ blog' = [blog EXCEPT !.reqs[r] =
                   [pc |-> "lookup", op |-> op, author |-> author,
                    status |-> status, featured |-> featured, slug |-> slug,
                    finalSlug |-> slug, counter |-> 1]]

ReceiveCreateBlogPost(r, slug, status, featured) ==
    ReceiveCreate(r, "createBlogPost", Admin, slug, status, featured)

ReceiveCreateSellerBlogPost(r, u, slug, submit) ==
    ReceiveCreate(r, "createSellerBlogPost", u, slug,
                  IF submit THEN "pending_review" ELSE "draft", FALSE)

\* one evaluation of the loop condition: await findOne({slug: finalSlug})
SlugLookup(r) ==
    /\ BlogFrame
    /\ blog.reqs[r].pc = "lookup"
    /\ LET req == blog.reqs[r]
       IN IF SlugTaken(blog.posts, req.finalSlug)
          THEN blog' = [blog EXCEPT !.reqs[r] =
                          [req EXCEPT !.finalSlug =
                                          Suffixed(req.slug, req.counter),
                                      !.counter = @ + 1]]
          ELSE blog' = [blog EXCEPT !.reqs[r].pc = "insert"]

\* await insertOne(post), then the response
InsertPost(r) ==
    /\ BlogFrame
    /\ blog.reqs[r].pc = "insert"
    /\ LET req == blog.reqs[r]
           post == BlogPost(blog.nextId, req.finalSlug, req.author,
                            req.status, req.featured,
                            IF req.status = "published" THEN now ELSE NoDate,
                            now)
       IN blog' = [blog EXCEPT
             !.posts = @ \cup {post}, !.nextId = @ + 1,
             !.reqs[r] = IdleBlogRequest,
             !.resp = BlogResponse(req.op, req.author, blog.nextId, 200, "")]

\* ------------------------------------------------------------------------
\* updateBlogPost (admin), updateSellerBlogPost, deleteSellerBlogPost
\* ------------------------------------------------------------------------
updateBlogPost(postId, body) ==
    /\ BlogFrame
    /\ IF postId = InvalidId
       THEN Answer(BlogResponse("updateBlogPost", Admin, postId, 500,
                                "Failed to update blog post"))
       ELSE LET found == PostWithId(blog.posts, postId)
                stamped == With(body, "updatedAt", now)
                firstPublication ==
                    /\ "status" \in DOMAIN body
                    /\ body["status"] = "published"
                    /\ \E p \in found : p.publishedAt = NoDate
                updateData == IF firstPublication
                              THEN With(stamped, "publishedAt", now)
                              ELSE stamped
            IN IF found = {}
               THEN Answer(BlogResponse("updateBlogPost", Admin, postId, 404,
                                        "Blog post not found"))
               ELSE blog' = [blog EXCEPT
                      !.posts = (@ \ found)
                                \cup {SetFields(p, Delete(updateData, {"_id"})) :
                                         p \in found},
                      !.resp = BlogResponse("updateBlogPost", Admin, postId,
                                            200, "")]

updateSellerBlogPost(u, postId, body) ==
    /\ BlogFrame
    /\ IF postId = InvalidId
       THEN Answer(BlogResponse("updateSellerBlogPost", u, postId, 500,
                                "Failed to update post"))
       ELSE LET existing == OwnPost(blog.posts, postId, u)
                update == Delete(With(body, "updatedAt", now),
                                 {"_id", "status"})
            IN IF existing = {}
               THEN Answer(BlogResponse("updateSellerBlogPost", u, postId,
                                        404, "Post not found"))
               ELSE IF \E p \in existing : p.status = "published"
               THEN Answer(BlogResponse("updateSellerBlogPost", u, postId,
                                        400, "Cannot edit published post"))
               ELSE blog' = [blog EXCEPT
                      !.posts = (@ \ existing)
                                \cup {SetFields(p, update) : p \in existing},
                      !.resp = BlogResponse("updateSellerBlogPost", u, postId,
                                            200, "")]

deleteSellerBlogPost(u, postId) ==
    /\ BlogFrame
    /\ IF postId = InvalidId
       THEN Answer(BlogResponse("deleteSellerBlogPost", u, postId, 500,
                                "Failed to delete post"))
       ELSE LET existing == OwnPost(blog.posts, postId, u)
            IN IF existing = {}
               THEN Answer(BlogResponse("deleteSellerBlogPost", u, postId,
                                        404, "Post not found"))
               ELSE IF \E p \in existing : p.status = "published"
               THEN Answer(BlogResponse("deleteSellerBlogPost", u, postId,
                                        400, "Cannot delete published post"))
               ELSE blog' = [blog EXCEPT
                      !.posts = @ \ existing,
                      !.resp = BlogResponse("deleteSellerBlogPost", u, postId,
                                            200, "")]


\* ------------------------------------------------------------------------
\* getProperties (the public listing)
\* ------------------------------------------------------------------------
\* a query parameter that was not sent
NotSent == ""

\* TYPE_ALIASES[v]; NotSent stands for undefined (v is no key of the table)
TYPE_ALIASES(v) ==
    CASE v \in {"co-living", "coliving", "pg"} -> "pg"
      [] v \in {"agricultural-land", "agri", "agricultural"} -> "agricultural"
      [] v \in {"commercial", "showroom", "office"} -> "commercial"
      [] v = "residential" -> "residential"
      [] v \in {"flat", "apartment"} -> "flat"
      [] v = "plot" -> "plot"
      [] OTHER -> NotSent

\* the normalised propertyType of a query
NormalisedType(category, qPropertyType) ==
    LET derived == IF qPropertyType = NotSent /\ category # NotSent
                      /\ TYPE_ALIASES(category) # NotSent
                   THEN TYPE_ALIASES(category) ELSE qPropertyType
    IN IF derived # NotSent /\ TYPE_ALIASES(derived) # NotSent
       THEN TYPE_ALIASES(derived) ELSE derived

\* the clauses of a $or: a condition on approvalStatus, or a pair of
\* propertyType and priceType
ApprovalIs(v) == [on |-> "approvalStatus", value |-> v, priceType |-> NotSent]
TypeAndPrice(t, p) == [on |-> "propertyType", value |-> t, priceType |-> p]

\* a listing without the approvalStatus field
NoField == "absent"

ModerationClauses == {ApprovalIs("approved"), ApprovalIs(NoField)}

BuyClauses ==
    {TypeAndPrice("residential", "sale"), TypeAndPrice("plot", "sale"),
     TypeAndPrice("flat", "sale")}

RentClauses ==
    {TypeAndPrice("residential", "rent"), TypeAndPrice("flat", "rent"),
     TypeAndPrice("commercial", "rent")}

\* the filter object: the base moderation filter, then the assignments the
\* handler makes to its keys
BaseFilter ==
    [status |-> "active", or |-> ModerationClauses,
     propertyType |-> NotSent, priceType |-> NotSent]

ListingFilter(q) ==
    LET propertyType == NormalisedType(q.category, q.propertyType)
        tabbed == IF q.category = "buy"
                  THEN [BaseFilter EXCEPT !.or = BuyClauses]
                  ELSE IF q.category = "rent"
                  THEN [BaseFilter EXCEPT !.or = RentClauses]
                  ELSE IF propertyType # NotSent
                  THEN [BaseFilter EXCEPT !.propertyType = propertyType]
                  ELSE BaseFilter
    IN IF q.priceType # NotSent
       THEN [tabbed EXCEPT !.priceType = q.priceType]
       ELSE tabbed

ClauseMatches(d, c) ==
    IF c.on = "approvalStatus"
    THEN d.approvalStatus = c.value
    ELSE d.propertyType = c.value /\ d.priceType = c.priceType

\* find(filter): every key of the filter object holds of the document
Matches(d, filter) ==
    /\ d.status = filter.status
    /\ \E c \in filter.or : ClauseMatches(d, c)
    /\ filter.propertyType # NotSent => d.propertyType = filter.propertyType
    /\ filter.priceType # NotSent => d.priceType = filter.priceType

Min(a, b) == IF a <= b THEN a ELSE b

\* sort({createdAt: -1}); the documents of a run have distinct createdAt
RECURSIVE NewestFirst(_)
NewestFirst(S) ==
    IF S = {} THEN <<>>
    ELSE LET d == CHOOSE x \in S : \A y \in S : y.createdAt <= x.createdAt
         IN <<d>> \o NewestFirst(S \ {d})

\* .skip(skip).limit(limitNum)
PageOf(docs, pageNum, limitNum) ==
    LET skip == (pageNum - 1) * limitNum
    IN SubSeq(docs, skip + 1, Min(Len(docs), skip + limitNum))

Query(category, propertyType, priceType, page, limit) ==
    [category |-> category, propertyType |-> propertyType,
     priceType |-> priceType, page |-> page, limit |-> limit]

NoListing ==
    [query |-> Query(NotSent, NotSent, NotSent, 0, 0), properties |-> <<>>,
     total |-> 0, status |-> 0]

getProperties(q) ==
    /\ LET found == {d \in properties : Matches(d, ListingFilter(q))}
       IN listed' = [query |-> q,
                     properties |-> PageOf(NewestFirst(found), q.page, q.limit),
                     total |-> Cardinality(found), status |-> 200]
    /\ UNCHANGED <<properties, settings, now, ticks, nextId, calls, callBudget,
                   freeCalls, resp, inflight, auth, api, freeAdPosts, blog>>

\* ------------------------------------------------------------------------
\* Initial state
\* ------------------------------------------------------------------------
\* a listing bought with a package whose payment was verified earlier
SeedDocs ==
    {[id |-> 0, ownerId |-> "u1", createdAt |-> 0, isPaid |-> TRUE,
      packageId |-> "pkg1", status |-> "active",
      approvalStatus |-> "approved", isApproved |-> TRUE]}

IdleRequest ==
    [pc |-> "idle", user |-> NoUser, pkg |-> NoPackage, createdAt |-> 0,
     s |-> NoSettings, counted |-> {}, status |-> 0]

\* everything but the properties collection
InitOther ==
    /\ now = 0
    /\ ticks = 0
    /\ nextId = 1
    /\ calls = 0
    /\ freeCalls = [u \in Users |-> 0]
    /\ resp = NoResponse
    /\ inflight = [r \in 1..NumReq |-> IdleRequest]
    /\ auth = NoAuth
    /\ api = NoApiCall
    /\ freeAdPosts = <<>>
    /\ listed = NoListing
    /\ blog = NoBlog

InitCommon ==
    /\ properties = SeedDocs
    /\ InitOther

Init ==
    /\ InitCommon
    /\ callBudget = MaxCallsWithUpdates
    /\ settings \in {NoSettings, SettingsDoc(2, 30, "true")}

\* ------------------------------------------------------------------------
\* createProperty, run to completion (requests processed one at a time)
\* ------------------------------------------------------------------------
Unauthenticated ==
    Response("createProperty", NoUser, NoPackage, 401, NoSettings)

GateDenial(u, pkg, s, counted) ==
    [Response("createProperty", u, pkg, 403, s) EXCEPT
        !.limitReached = TRUE, !.hasFreeAdLimit = TRUE, !.gated = TRUE,
        !.used = Cardinality(counted), !.counted = IdsOf(counted)]

\* e: what happened in the confirmation email path, a: what happens in the
\* detached admin notification
Created(u, pkg, s, gated, counted, id, e, a) ==
    [Response("createProperty", u, pkg, 201, s) EXCEPT
        !.gated = gated,
        !.used = Cardinality(counted), !.counted = IdsOf(counted),
        !.insertedId = id, !.propertyId = id, !.email = e, !.admin = a]

\* the insert issued before the gate is consulted
createProperty_InsertsBeforeGate(u, raw, e, a) ==
    /\ calls < callBudget
    /\ calls' = calls + 1
    /\ UNCHANGED <<settings, now, ticks, callBudget, inflight, auth, OtherVars>>
    /\ IF u = NoUser
       THEN /\ resp' = Unauthenticated
            /\ UNCHANGED <<properties, nextId, freeCalls>>
       ELSE LET pkg == PackageIdOf(raw)
                s == GateSettings(settings)
                gated == GateApplies(s, pkg)
                counted == IF gated THEN GateCounted(properties, u, s, now)
                           ELSE {}
            IN /\ freeCalls' = IF pkg = NoPackage
                               THEN [freeCalls EXCEPT ![u] = @ + 1]
                               ELSE freeCalls
               /\ properties' =
                      properties \cup {NewProperty(nextId, u, pkg, now)}
               /\ nextId' = nextId + 1
               /\ IF gated /\ GateDenies(s, Cardinality(counted))
                  THEN resp' = GateDenial(u, pkg, s, counted)
                  ELSE resp' = Created(u, pkg, s, gated, counted, nextId, e, a)

\* the confirmation email path outside a try block: its failure reaches the
\* handler's catch, which answers 500
createProperty_EmailUncaught(u, raw, e, a) ==
    /\ calls < callBudget
    /\ calls' = calls + 1
    /\ UNCHANGED <<settings, now, ticks, callBudget, inflight, auth, OtherVars>>
    /\ IF u = NoUser
       THEN /\ resp' = Unauthenticated
            /\ UNCHANGED <<properties, nextId, freeCalls>>
       ELSE LET pkg == PackageIdOf(raw)
                s == GateSettings(settings)
                gated == GateApplies(s, pkg)
                counted == IF gated THEN GateCounted(properties, u, s, now)
                           ELSE {}
            IN /\ freeCalls' = IF pkg = NoPackage
                               THEN [freeCalls EXCEPT ![u] = @ + 1]
                               ELSE freeCalls
               /\ IF gated /\ GateDenies(s, Cardinality(counted))
                  THEN /\ resp' = GateDenial(u, pkg, s, counted)
                       /\ UNCHANGED <<properties, nextId>>
                  ELSE /\ properties' =
                             properties \cup {NewProperty(nextId, u, pkg, now)}
                       /\ nextId' = nextId + 1
                       /\ resp' =
                            IF e \in {"invalidUserId", "lookupFails", "sendFails"}
                            THEN [Response("createProperty", u, pkg, 500, s)
                                     EXCEPT !.email = e]
                            ELSE Created(u, pkg, s, gated, counted, nextId, e, a)

createProperty(u, raw, e, a) ==
    /\ calls < callBudget
    /\ calls' = calls + 1
    /\ UNCHANGED <<settings, now, ticks, callBudget, inflight, auth, OtherVars>>
    /\ IF u = NoUser
       THEN /\ resp' = Unauthenticated
            /\ UNCHANGED <<properties, nextId, freeCalls>>
       ELSE LET pkg == PackageIdOf(raw)
                s == GateSettings(settings)
                gated == GateApplies(s, pkg)
                counted == IF gated THEN GateCounted(properties, u, s, now)
                           ELSE {}
            IN /\ freeCalls' = IF pkg = NoPackage
                               THEN [freeCalls EXCEPT ![u] = @ + 1]
                               ELSE freeCalls
               /\ IF gated /\ GateDenies(s, Cardinality(counted))
                  THEN /\ resp' = GateDenial(u, pkg, s, counted)
                       /\ UNCHANGED <<properties, nextId>>
                  ELSE /\ properties' =
                             properties \cup {NewProperty(nextId, u, pkg, now)}
                       /\ nextId' = nextId + 1
                       /\ resp' = Created(u, pkg, s, gated, counted, nextId,
                                          e, a)

\* ------------------------------------------------------------------------
\* checkUserFreeAdLimit
\* ------------------------------------------------------------------------
CheckInactive(u, s) ==
    [Response("checkUserFreeAdLimit", u, NoPackage, 200, s) EXCEPT
        !.canPostFree = TRUE, !.remainingInf = TRUE, !.systemActive = FALSE]

\* remaining computed without Math.max(0, ...)
CheckActive_Unclamped(u, s, counted) ==
    LET used == Cardinality(counted)
        remaining == s.maxFreeAdsPerMonth - used
    IN [Response("checkUserFreeAdLimit", u, NoPackage, 200, s) EXCEPT
        !.canPostFree = (remaining > 0), !.remaining = remaining,
        !.used = used, !.counted = IdsOf(counted), !.gated = TRUE,
        !.systemActive = TRUE]

CheckActive(u, s, counted) ==
    LET used == Cardinality(counted)
        remaining == Max(0, s.maxFreeAdsPerMonth - used)
    IN [Response("checkUserFreeAdLimit", u, NoPackage, 200, s) EXCEPT
        !.canPostFree = (remaining > 0), !.remaining = remaining,
        !.used = used, !.counted = IdsOf(counted), !.gated = TRUE,
        !.systemActive = TRUE]

\* the defaults inserted when the document is absent, as getSettings does
checkUserFreeAdLimit_Materialises(u) ==
    /\ UNCHANGED <<properties, now, ticks, nextId, calls, callBudget,
                   freeCalls, inflight, auth, OtherVars>>
    /\ settings' = CheckSettings(settings)
    /\ LET s == CheckSettings(settings)
       IN IF ~Truthy(s.isActive)
          THEN resp' = CheckInactive(u, s)
          ELSE resp' = CheckActive(u, s, CheckCounted(properties, u, s, now))

checkUserFreeAdLimit(u) ==
    /\ UNCHANGED <<properties, settings, now, ticks, nextId, calls, callBudget,
                   freeCalls, inflight, auth, OtherVars>>
    /\ LET s == CheckSettings(settings)
       IN IF ~Truthy(s.isActive)
          THEN resp' = CheckInactive(u, s)
          ELSE resp' = CheckActive(u, s, CheckCounted(properties, u, s, now))

\* ------------------------------------------------------------------------
\* getSettings / updateSettings
\* ------------------------------------------------------------------------
getSettings ==
    /\ UNCHANGED <<properties, now, ticks, nextId, calls, callBudget, freeCalls,
                 inflight, auth, OtherVars>>
    /\ settings' = IF settings.exists THEN settings ELSE DEFAULT_SETTINGS
    /\ resp' = Response("getSettings", NoUser, NoPackage, 200, settings')

\* a JSON value of the request body: its typeof and, for a number, its value
Num(n) == [type |-> "number", v |-> n]
NotNum == [type |-> "string", v |-> 0]
BodyMax == {Num(0), Num(1), Num(2), NotNum}
BodyDays == {Num(30), Num(60), NotNum}
BodyActive == {"true", "false"}

\* only maxFreeAdsPerMonth validated
updateSettings_ChecksMaxOnly(m, d, a) ==
    /\ UNCHANGED <<properties, now, ticks, nextId, calls, callBudget, freeCalls,
                 inflight, auth, OtherVars>>
    /\ IF m.type # "number"
       THEN /\ resp' = Response("updateSettings", NoUser, NoPackage, 400,
                                NoSettings)
            /\ UNCHANGED settings
       ELSE /\ settings' = SettingsDoc(m.v, d.v, a)
            /\ resp' = Response("updateSettings", NoUser, NoPackage, 200,
                                SettingsDoc(m.v, d.v, a))

updateSettings(m, d, a) ==
    /\ UNCHANGED <<properties, now, ticks, nextId, calls, callBudget, freeCalls,
                 inflight, auth, OtherVars>>
    /\ IF m.type # "number" \/ d.type # "number"
       THEN /\ resp' = Response("updateSettings", NoUser, NoPackage, 400,
                                NoSettings)
            /\ UNCHANGED settings
       ELSE /\ settings' = SettingsDoc(m.v, d.v, a)
            /\ resp' = Response("updateSettings", NoUser, NoPackage, 200,
                                SettingsDoc(m.v, d.v, a))


\* ------------------------------------------------------------------------
\* updatePropertyApproval
\* ------------------------------------------------------------------------
\* body.approvalStatus; "pending" stands for every other value
ApprovalInputs == {"approved", "rejected", "pending"}

\* $set: updateData
\* a rejection that leaves the listing's status as it was
Reviewed_RejectKeepsStatus(d, approvalStatus) ==
    IF approvalStatus = "approved"
    THEN [d EXCEPT !.approvalStatus = approvalStatus, !.status = "active",
                   !.isApproved = TRUE]
    ELSE [d EXCEPT !.approvalStatus = approvalStatus, !.isApproved = FALSE]

Reviewed(d, approvalStatus) ==
    IF approvalStatus = "approved"
    THEN [d EXCEPT !.approvalStatus = approvalStatus, !.status = "active",
                   !.isApproved = TRUE]
    ELSE [d EXCEPT !.approvalStatus = approvalStatus, !.status = "inactive",
                   !.isApproved = FALSE]

ApprovalResponse(pid, approvalStatus, status, e) ==
    [Response("updatePropertyApproval", NoUser, NoPackage, status, NoSettings)
        EXCEPT !.propertyId = pid, !.approvalStatus = approvalStatus,
               !.email = e]

\* e: what happens in the owner notification
updatePropertyApproval(pid, approvalStatus, e) ==
    /\ UNCHANGED <<settings, now, ticks, nextId, calls, callBudget, freeCalls,
                   inflight, auth, OtherVars>>
    /\ IF pid = InvalidId
       THEN /\ resp' = ApprovalResponse(pid, approvalStatus, 400, "none")
            /\ UNCHANGED properties
       ELSE IF approvalStatus \notin {"approved", "rejected"}
       THEN /\ resp' = ApprovalResponse(pid, approvalStatus, 400, "none")
            /\ UNCHANGED properties
       ELSE IF pid \notin IdsOf(properties)
       THEN /\ resp' = ApprovalResponse(pid, approvalStatus, 404, "none")
            /\ UNCHANGED properties
       ELSE /\ properties' =
                  {IF d.id = pid THEN Reviewed(d, approvalStatus) ELSE d :
                      d \in properties}
            /\ resp' = ApprovalResponse(pid, approvalStatus, 200, e)

\* ------------------------------------------------------------------------
\* recordFreeAdPost
\* ------------------------------------------------------------------------
\* the propertyId of a request body: a listing's id, or NoProperty when the
\* field is missing or empty
RecordResponse(u, propertyId, status) ==
    [Response("recordFreeAdPost", u, NoPackage, status, NoSettings) EXCEPT
        !.propertyId = propertyId]

FreeAdPost(u, propertyId, t) ==
    [userId |-> u, propertyId |-> propertyId, postedAt |-> t, createdAt |-> t]

\* the record written as a listing into properties as well
recordFreeAdPost_CountsAsListing(u, propertyId) ==
    /\ UNCHANGED <<settings, now, ticks, calls, callBudget, freeCalls,
                   inflight, auth, api, listed, blog>>
    /\ IF propertyId = NoProperty
       THEN /\ resp' = RecordResponse(u, propertyId, 400)
            /\ UNCHANGED <<properties, nextId, freeAdPosts>>
       ELSE /\ Len(freeAdPosts) < MaxRecords
            /\ freeAdPosts' = Append(freeAdPosts, FreeAdPost(u, propertyId, now))
            /\ properties' =
                   properties \cup {NewProperty(nextId, u, NoPackage, now)}
            /\ nextId' = nextId + 1
            /\ resp' = RecordResponse(u, propertyId, 200)

recordFreeAdPost(u, propertyId) ==
    /\ UNCHANGED <<settings, now, ticks, calls, callBudget, freeCalls,
                   inflight, auth, api, listed, blog>>
    /\ IF propertyId = NoProperty
       THEN /\ resp' = RecordResponse(u, propertyId, 400)
            /\ UNCHANGED <<properties, nextId, freeAdPosts>>
       ELSE /\ Len(freeAdPosts) < MaxRecords
            /\ freeAdPosts' = Append(freeAdPosts, FreeAdPost(u, propertyId, now))
            /\ UNCHANGED <<properties, nextId>>
            /\ resp' = RecordResponse(u, propertyId, 200)

\* ------------------------------------------------------------------------
\* passage of time (no handler runs)
\* ------------------------------------------------------------------------
\* held: the caller of the last handler still holds its answer
Tick(d, held) ==
    /\ ticks < MaxTicks
    /\ now' = now + d
    /\ ticks' = ticks + 1
    /\ resp' = IF held THEN resp ELSE NoResponse
    /\ UNCHANGED <<properties, settings, nextId, calls, callBudget, freeCalls,
                 inflight, auth, OtherVars>>

CreateInputs ==
    (Users \X {"absent", "pkg1"}) \cup {<<"u1", "blank">>, <<NoUser, "absent">>}

Next ==
    \/ \E in \in CreateInputs, e \in EmailDelivered, a \in EmailDelivered :
          createProperty(in[1], in[2], e, a)
    \/ \E u \in Users : checkUserFreeAdLimit(u)
    \/ getSettings
    \/ \E m \in BodyMax, d \in BodyDays, a \in BodyActive : updateSettings(m, d, a)
    \/ \E d \in TickSteps : Tick(d, FALSE)

Spec == Init /\ [][Next]_vars

\* ------------------------------------------------------------------------
\* The same handlers under settings that an administrator has persisted
\* earlier and that stay as they are
\* ------------------------------------------------------------------------
PersistedSettings ==
    {SettingsDoc(m, d, a) : m \in {0, 1, 2}, d \in {30, 60}, a \in BodyActive}

InitFixed ==
    /\ InitCommon
    /\ callBudget = MaxCalls
    /\ settings \in PersistedSettings \cup {NoSettings}

NextFixed ==
    \/ \E in \in CreateInputs, e \in EmailDelivered, a \in EmailDelivered :
          createProperty(in[1], in[2], e, a)
    \/ \E u \in Users : checkUserFreeAdLimit(u)
    \/ \E d \in TickSteps : Tick(d, FALSE)

SpecFixed == InitFixed /\ [][NextFixed]_vars

\* ------------------------------------------------------------------------
\* createProperty as the event loop runs it: the request is suspended at
\* each awaited database call and other requests run in between
\* ------------------------------------------------------------------------
\* the handler starts, builds propertyData and reads the settings document
BeginCreate(r, u, raw) ==
    /\ inflight[r].pc = "idle"
    /\ \A q \in 1..(r - 1) : inflight[q].pc # "idle"
    /\ calls' = calls + 1
    /\ UNCHANGED <<properties, settings, now, ticks, nextId, callBudget, auth, OtherVars>>
    /\ IF u = NoUser
       THEN /\ resp' = Unauthenticated
            /\ inflight' = [inflight EXCEPT ![r] =
                               [IdleRequest EXCEPT !.pc = "done", !.status = 401]]
            /\ UNCHANGED freeCalls
       ELSE LET pkg == PackageIdOf(raw)
                s == GateSettings(settings)
            IN /\ freeCalls' = IF pkg = NoPackage
                               THEN [freeCalls EXCEPT ![u] = @ + 1]
                               ELSE freeCalls
               /\ inflight' = [inflight EXCEPT ![r] =
                     [pc |-> IF GateApplies(s, pkg) THEN "count" ELSE "insert",
                      user |-> u, pkg |-> pkg, createdAt |-> now, s |-> s,
                      counted |-> {}, status |-> 0]]
               /\ resp' = NoResponse

\* countDocuments is answered and the gate decides
CountFree(r) ==
    /\ inflight[r].pc = "count"
    /\ UNCHANGED <<properties, settings, now, ticks, nextId, calls, callBudget, freeCalls,
                   auth, OtherVars>>
    /\ LET q == inflight[r]
           counted == GateCounted(properties, q.user, q.s, now)
       IN IF GateDenies(q.s, Cardinality(counted))
          THEN /\ resp' = GateDenial(q.user, q.pkg, q.s, counted)
               /\ inflight' = [inflight EXCEPT ![r].pc = "done",
                                               ![r].status = 403,
                                               ![r].counted = IdsOf(counted)]
          ELSE /\ resp' = NoResponse
               /\ inflight' = [inflight EXCEPT ![r].pc = "insert",
                                               ![r].counted = IdsOf(counted)]

\* insertOne is answered, the email paths run and the 201 response is
\* written
InsertListing(r, e, a) ==
    /\ inflight[r].pc = "insert"
    /\ UNCHANGED <<settings, now, ticks, calls, callBudget, freeCalls, auth, OtherVars>>
    /\ LET q == inflight[r]
       IN /\ properties' =
                properties \cup {NewProperty(nextId, q.user, q.pkg, q.createdAt)}
          /\ nextId' = nextId + 1
          /\ resp' = [Response("createProperty", q.user, q.pkg, 201, q.s) EXCEPT
                         !.gated = GateApplies(q.s, q.pkg),
                         !.used = Cardinality(q.counted),
                         !.counted = q.counted, !.insertedId = nextId,
                         !.propertyId = nextId, !.email = e, !.admin = a]
          /\ inflight' = [inflight EXCEPT ![r].pc = "done", ![r].status = 201]

InitConc ==
    /\ InitCommon
    /\ callBudget = NumReq
    /\ settings \in PersistedSettings \cup {NoSettings}

NextConc ==
    \/ \E r \in 1..NumReq, in \in CreateInputs : BeginCreate(r, in[1], in[2])
    \/ \E r \in 1..NumReq : CountFree(r)
    \/ \E r \in 1..NumReq, e \in EmailDelivered, a \in EmailDelivered :
          InsertListing(r, e, a)
    \/ \E d \in TickSteps : Tick(d, FALSE)

SpecConc == InitConc /\ [][NextConc]_vars

\* ------------------------------------------------------------------------
\* one request through one of the exported guards
\* ------------------------------------------------------------------------
InitAuth ==
    /\ InitCommon
    /\ callBudget = 0
    /\ settings = NoSettings

\* the request that arrives, while none has been handled yet
Arriving == IF auth.guard = "none" THEN AuthInputs ELSE {}

NextAuth ==
    \/ \E in \in Arriving : authenticateToken(in[1], in[2])
    \/ \E in \in Arriving : requireAdmin(in[1], in[2])
    \/ \E in \in Arriving : requireSellerOrAgent(in[1], in[2])
    \/ \E in \in Arriving : requireBuyer(in[1], in[2])
    \/ \E in \in Arriving, n \in PermissionNames :
          requirePermission(n, in[1], in[2])

SpecAuth == InitAuth /\ [][NextAuth]_vars

\* ------------------------------------------------------------------------
\* A client that asks checkUserFreeAdLimit again and again while it keeps
\* the last answer, under settings that stay as they are
\* ------------------------------------------------------------------------
InitPoll ==
    /\ InitCommon
    /\ callBudget = MaxCallsWithUpdates
    /\ settings \in PersistedSettings \cup {NoSettings}

NextPoll ==
    \/ \E in \in CreateInputs, e \in EmailDelivered, a \in EmailDelivered :
          createProperty(in[1], in[2], e, a)
    \/ \E u \in Users : checkUserFreeAdLimit(u)
    \/ \E d \in TickSteps, held \in BOOLEAN : Tick(d, held)

SpecPoll == InitPoll /\ [][NextPoll]_vars

\* ------------------------------------------------------------------------
\* The administrator's settings screen: reads and writes of the singleton
\* ------------------------------------------------------------------------
InitSettings ==
    /\ InitCommon
    /\ callBudget = 0
    /\ settings = NoSettings

NextSettings ==
    \/ getSettings
    \/ \E m \in BodyMax, d \in BodyDays, a \in BodyActive : updateSettings(m, d, a)
    \/ \E u \in Users : checkUserFreeAdLimit(u)
    \/ \E d \in TickSteps : Tick(d, FALSE)

SpecSettings == InitSettings /\ [][NextSettings]_vars

\* ------------------------------------------------------------------------
\* Listings created and reviewed while the mail service and the user lookup
\* can fail
\* ------------------------------------------------------------------------
InitMail ==
    /\ InitCommon
    /\ callBudget = MaxCallsWithMail
    /\ settings \in {NoSettings, SettingsDoc(1, 30, "true")}

\* the admin address always resolves (it has a literal fallback)
AdminOutcomes == EmailOutcomes \ {"noEmail"}

\* the ids in the route: a listing, an id no listing has, no ObjectId
ParamIds == IdsOf(properties) \cup {nextId, InvalidId}

NextMail ==
    \/ \E in \in CreateInputs, e \in EmailOutcomes, a \in AdminOutcomes :
          createProperty(in[1], in[2], e, a)
    \/ \E pid \in ParamIds, st \in ApprovalInputs, e \in EmailOutcomes :
          updatePropertyApproval(pid, st, e)

SpecMail == InitMail /\ [][NextMail]_vars

\* ------------------------------------------------------------------------
\* One apiRequest call of the front end; every timer fires and every fetch
\* settles (a fetch that hangs is aborted by the timeout)
\* ------------------------------------------------------------------------
InitApi ==
    /\ InitCommon
    /\ callBudget = 0
    /\ settings = NoSettings

NextApi ==
    \/ apiRequest
    \/ \E o \in FetchOutcomes : FetchSettles(o)
    \/ RetryAfterDelay

SpecApi == InitApi /\ [][NextApi]_vars /\ WF_vars(NextApi)

\* ------------------------------------------------------------------------
\* The quota handlers together with recordFreeAdPost
\* ------------------------------------------------------------------------
InitRecord ==
    /\ InitCommon
    /\ callBudget = MaxCallsWithMail
    /\ settings \in {NoSettings, SettingsDoc(1, 30, "true")}

\* the propertyId values a body can carry: none, a listing, an unknown id
RecordIds == IdsOf(properties) \cup {nextId, NoProperty}

NextRecord ==
    \/ \E in \in CreateInputs, e \in EmailDelivered, a \in EmailDelivered :
          createProperty(in[1], in[2], e, a)
    \/ \E u \in Users : checkUserFreeAdLimit(u)
    \/ \E u \in Users, pid \in RecordIds : recordFreeAdPost(u, pid)

SpecRecord == InitRecord /\ [][NextRecord]_vars

\* ------------------------------------------------------------------------
\* The public listing over any content of the properties collection
\* ------------------------------------------------------------------------
\* the kinds of listing a query tells apart
ListedTypes ==
    {<<"residential", "sale">>, <<"flat", "rent">>}

ListingDoc(id, status, approvalStatus, type) ==
    [id |-> id, ownerId |-> "u1", createdAt |-> id, isPaid |-> FALSE,
     packageId |-> NoPackage, status |-> status,
     approvalStatus |-> approvalStatus,
     isApproved |-> (approvalStatus = "approved"),
     propertyType |-> type[1], priceType |-> type[2]]

DocShapes(id) ==
    {ListingDoc(id, st, ap, ty) :
        st \in {"active", "inactive"},
        ap \in {"approved", "pending", NoField},
        ty \in ListedTypes}

\* the collections with the documents 1..n, each of any shape
RECURSIVE Collections(_)
Collections(n) ==
    IF n = 0 THEN {{}}
    ELSE {c \cup {d} : c \in Collections(n - 1), d \in DocShapes(n)}

Queries ==
    {Query(c, t, p, page, 1) :
        c \in {NotSent, "buy", "rent", "flat"},
        t \in {NotSent, "apartment"},
        p \in {NotSent, "rent"},
        page \in {1, 2}}

InitListing ==
    /\ InitOther
    /\ callBudget = 0
    /\ settings = NoSettings
    /\ \E n \in 0..MaxDocs : properties \in Collections(n)

NextListing == \E q \in Queries : getProperties(q)

SpecListing == InitListing /\ [][NextListing]_vars

\* ------------------------------------------------------------------------
\* The blog handlers, one request at a time
\* ------------------------------------------------------------------------
\* request bodies of the two update handlers
SellerBodies ==
    {[title |-> "t1"], [status |-> "published"], [publishedAt |-> 0]}

AdminBodies == {[status |-> "published"], [status |-> "archived"]}

\* the ids in the route: a post, an id no post has, no ObjectId
PostIds == {p.id : p \in blog.posts} \cup {blog.nextId, InvalidId}

InitBlog ==
    /\ InitCommon
    /\ callBudget = 0
    /\ settings = NoSettings

SellerNext ==
    \/ \E submit \in BOOLEAN : createSellerBlogPost("u1", <<"a">>, submit)
    \/ \E u \in Users, id \in PostIds, body \in SellerBodies :
          updateSellerBlogPost(u, id, body)
    \/ \E u \in Users, id \in PostIds : deleteSellerBlogPost(u, id)

NextBlog ==
    \/ SellerNext
    \/ \E complete \in BOOLEAN :
          createBlogPost(complete, <<"a">>, "published", FALSE)
    \/ \E id \in PostIds, body \in AdminBodies : updateBlogPost(id, body)

SpecBlog == InitBlog /\ [][NextBlog]_vars

\* the seller handlers alone
SpecSellerBlog == InitBlog /\ [][SellerNext]_vars

\* ------------------------------------------------------------------------
\* Blog posts created by requests that are in flight together
\* ------------------------------------------------------------------------
NextBlogConc ==
    \/ \E r \in 1..NumReq, slug \in SlugInputs :
          ReceiveCreateBlogPost(r, slug, "draft", FALSE)
    \/ \E r \in 1..NumReq, slug \in SlugInputs :
          ReceiveCreateSellerBlogPost(r, "u1", slug, FALSE)
    \/ \E r \in 1..NumReq : SlugLookup(r)
    \/ \E r \in 1..NumReq : InsertPost(r)

SpecBlogConc == InitBlog /\ [][NextBlogConc]_vars





\* ========================================================================
\* Properties
\* ========================================================================
IsCreateResp == resp.op = "createProperty"
IsCheckResp == resp.op = "checkUserFreeAdLimit"

\* every listing of u is a free one created inside the current window
FreshFreeOnly(u) ==
    \A d \in OwnedBy(properties, u) :
        /\ d.packageId = NoPackage
        /\ d.isPaid = FALSE
        /\ d.createdAt >= now - settings.numberOfDays

\* C1: with enabled settings of limit N that stay unchanged, for a user who
\* started with no listings and whose requests are processed one after
\* another, the k-th createProperty call without packageId inside the window
\* is answered 201 iff k <= N and 403 with limitReached otherwise.
C1_KthFreeCallSucceedsIffWithinLimit ==
    \A u \in Users :
        ( /\ IsCreateResp /\ resp.user = u /\ resp.pkg = NoPackage
          /\ settings.exists /\ Truthy(settings.isActive)
          /\ FreshFreeOnly(u) )
        => /\ (resp.status = 201) <=> (freeCalls[u] <= settings.maxFreeAdsPerMonth)
           /\ (resp.status = 403 /\ resp.limitReached)
                <=> (freeCalls[u] > settings.maxFreeAdsPerMonth)

C1_Witness ==
    /\ IsCreateResp /\ resp.user = "u2" /\ resp.pkg = NoPackage
    /\ settings = SettingsDoc(2, 30, "true")
    /\ FreshFreeOnly("u2")
    /\ freeCalls["u2"] = 3
    /\ Cardinality(OwnedBy(properties, "u2")) = 2
    /\ resp.status = 403 /\ resp.limitReached

\* C2: a listing with isPaid = true or a non-null packageId is never among
\* the listings counted as free usage, neither by the creation gate nor by
\* checkUserFreeAdLimit.
C2_PaidOrPackagedNeverCounted ==
    (IsCreateResp \/ IsCheckResp) =>
        \A d \in properties :
            (d.isPaid = TRUE \/ d.packageId \notin {"absent", "null"})
                => d.id \notin resp.counted

\* the free listings of u inside the window of settings s
FreeInWindow(u, s) ==
    {d \in OwnedBy(properties, u) :
        /\ d.packageId = NoPackage
        /\ d.isPaid = FALSE
        /\ d.createdAt >= now - s.numberOfDays}

\* C3: the gate decides on the count a request has read: every free request
\* answered 201 had read a count below the limit, yet two requests of one
\* user that both count before either inserts are both answered 201 and
\* leave the user above maxFreeAdsPerMonth (the witness).
CountReadIsBelowLimit ==
    \A r \in 1..NumReq :
        LET q == inflight[r]
        IN /\ ((q.status = 201 \/ q.pc = "insert") /\ GateApplies(q.s, q.pkg))
                => Cardinality(q.counted) < q.s.maxFreeAdsPerMonth
           /\ q.status = 403
                => Cardinality(q.counted) >= q.s.maxFreeAdsPerMonth

\* a request that has passed the count is not checked again: it inserts
InsertIsNotRechecked ==
    \A r \in 1..NumReq :
        (inflight[r].pc = "insert" /\ inflight'[r].pc # "insert")
            => /\ inflight'[r].status = 201
               /\ Cardinality(properties') = Cardinality(properties) + 1

C3_GateOnlyBoundsTheCountRead ==
    []CountReadIsBelowLimit /\ [][InsertIsNotRechecked]_vars

C3_Witness ==
    \E r1, r2 \in 1..NumReq :
        /\ r1 # r2
        /\ inflight[r1].status = 201 /\ inflight[r2].status = 201
        /\ inflight[r1].user = "u2" /\ inflight[r2].user = "u2"
        /\ inflight[r1].pkg = NoPackage /\ inflight[r2].pkg = NoPackage
        /\ inflight[r1].counted = inflight[r2].counted
        /\ settings.exists /\ Truthy(settings.isActive)
        /\ inflight[r1].s = settings /\ inflight[r2].s = settings
        /\ settings.maxFreeAdsPerMonth >= 1
        /\ Cardinality(FreeInWindow("u2", settings)) > settings.maxFreeAdsPerMonth

\* C4: an authenticated createProperty request with a packageId that is
\* non-empty (after trimming) is never answered by the free-listing gate: it
\* is answered 201, without limitReached, and its listing is inserted.
C4_PackageRequestBypassesGate ==
    (IsCreateResp /\ resp.user \in Users /\ resp.pkg # NoPackage)
        => /\ resp.status = 201
           /\ ~resp.limitReached
           /\ ~resp.gated
           /\ \E d \in properties :
                 /\ d.id = resp.insertedId
                 /\ d.ownerId = resp.user
                 /\ d.packageId = resp.pkg

\* the user's listings the creation gate would count now
GateUsage(u) ==
    Cardinality({d \in OwnedBy(properties, u) :
                    /\ d.createdAt >= now - GateSettings(settings).numberOfDays
                    /\ (d.packageId = NoPackage \/ d.isPaid = FALSE)})

C4_Witness ==
    /\ IsCreateResp /\ resp.user = "u1" /\ resp.pkg = "pkg1"
    /\ resp.status = 201
    /\ settings.exists /\ Truthy(settings.isActive)
    /\ GateUsage("u1") - 1 >= settings.maxFreeAdsPerMonth
    /\ settings.maxFreeAdsPerMonth >= 1

\* C5: while the persisted settings have isActive = false,
\* checkUserFreeAdLimit answers canPostFree = true and systemActive = false,
\* and createProperty answers no request with limitReached (an
\* authenticated request is answered 201).
C5_DisabledSystemNeverLimits ==
    (settings.exists /\ settings.isActive = "false") =>
        /\ IsCheckResp => (resp.canPostFree /\ ~resp.systemActive)
        /\ IsCreateResp =>
              /\ ~resp.limitReached
              /\ resp.status # 403
              /\ resp.user \in Users => resp.status = 201

C5_Witness ==
    /\ settings.exists /\ settings.isActive = "false"
    /\ settings.maxFreeAdsPerMonth >= 1
    /\ IsCheckResp /\ resp.user = "u2"
    /\ resp.canPostFree /\ ~resp.systemActive
    /\ GateUsage("u2") >= settings.maxFreeAdsPerMonth

\* C6: with the system enabled, checkUserFreeAdLimit answers
\* remaining = max(0, limit - used) >= 0 and canPostFree = (remaining > 0),
\* where limit is the configured maxFreeAdsPerMonth.
C6_RemainingIsClampedDifference ==
    (IsCheckResp /\ resp.systemActive) =>
        /\ resp.max = (IF settings.exists THEN settings.maxFreeAdsPerMonth
                       ELSE DefaultMaxFreeAds)
        /\ resp.remaining >= 0
        /\ resp.remaining = (IF resp.used < resp.max THEN resp.max - resp.used
                             ELSE 0)
        /\ resp.canPostFree <=> (resp.remaining > 0)
        /\ (resp.max = 2 /\ resp.used = 2)
              => (~resp.canPostFree /\ resp.remaining = 0)
        /\ (resp.max = 2 /\ resp.used = 1) => resp.remaining = 1

C6_Witness ==
    /\ IsCheckResp /\ resp.systemActive
    /\ resp.max = 2 /\ resp.used = 2
    /\ ~resp.canPostFree /\ resp.remaining = 0

\* C7: when the free-listing gate denies a createProperty request, the
\* answer is 403 with limitReached: true and freeAdLimit {max, days, used},
\* and the properties collection is left as it was.
C7_GateDenialWritesNothing ==
    [][ (calls' = calls + 1 /\ resp'.status \notin {201, 401})
        => /\ resp'.op = "createProperty"
           /\ resp'.status = 403
           /\ resp'.limitReached
           /\ resp'.hasFreeAdLimit
           /\ resp'.max = GateSettings(settings).maxFreeAdsPerMonth
           /\ resp'.days = GateSettings(settings).numberOfDays
           /\ resp'.used >= resp'.max
           /\ properties' = properties
           /\ nextId' = nextId ]_vars

C7_Witness ==
    /\ IsCreateResp /\ resp.status = 403
    /\ resp.limitReached /\ resp.hasFreeAdLimit
    /\ resp.user = "u1" /\ resp.used >= resp.max /\ resp.max = 1

\* ------------------------------------------------------------------------
\* middleware/auth.ts
\* ------------------------------------------------------------------------
GuardRan == auth.guard # "none"

\* the picked token passed jwt.verify
TokenVerified == ~auth.token.isNull /\ auth.token.text \in ValidTokens

\* a payload value that identifies a user: a non-empty string or a number
IsIdentifier(v) == ~Nullish(v) /\ v.s # ""

IdentifierPositions(p) == {i \in 1..Len(IdPaths) : IsIdentifier(p[IdPaths[i]])}

FirstIdentifier(p) ==
    LET i == CHOOSE i \in IdentifierPositions(p) :
                 \A j \in IdentifierPositions(p) : i <= j
    IN p[IdPaths[i]]

\* C8: for every verified payload with a user identifier under at least one
\* of userId, id, _id, user.id, user._id, sub, the resolver succeeds and
\* req.userId is the string form of the first identifier in that order,
\* whatever the other paths hold.
C8_FirstIdentifierIsResolved ==
    (GuardRan /\ TokenVerified /\ IdentifierPositions(auth.payload) # {})
        => /\ auth.ok
           /\ auth.attached.userId = Str(FirstIdentifier(auth.payload).s)

\* C9: whenever the resolver fails (no credential, token verification
\* fails, or no user identifier in the payload) the answer is 401, none of
\* userId, userType, role, email, isAdmin is attached, and the guard does
\* not call next().
ResolverFails ==
    \/ auth.token.isNull \/ auth.token.text = ""
    \/ ~TokenVerified
    \/ \A i \in 1..Len(IdPaths) : Nullish(auth.payload[IdPaths[i]])

C9_FailedResolverAttachesNothing ==
    (GuardRan /\ (ResolverFails \/ ~auth.ok))
        => /\ ~auth.ok
           /\ auth.status = 401
           /\ auth.error \in {"Access token required",
                              "Invalid or expired token",
                              "Invalid token (no user id)"}
           /\ \A f \in {"userId", "userType", "role", "email", "isAdmin"} :
                 auth.attached[f] = Undefined
           /\ auth.nextCalls = 0

C9_Witness ==
    /\ auth.guard = "requireAdmin"
    /\ ~auth.token.isNull /\ auth.token.text = "bad"
    /\ auth.status = 401 /\ auth.error = "Invalid or expired token"
    /\ auth.nextCalls = 0

\* the credential a location carries ("" if none)
CredentialAt(req, i) ==
    CASE i = 1 -> IF Lower(req.authorization.scheme) = "bearer"
                     /\ req.authorization.sep
                  THEN req.authorization.rest.core ELSE ""
      [] i = 2 -> req.xAuthToken.core
      [] i = 3 -> req.xAdminToken.core
      [] i = 4 -> req.cookieToken.core
      [] i = 5 -> req.cookieAuthToken.core
      [] i = 6 -> req.cookieAdminToken.core

CredentialPositions(req) == {i \in 1..6 : CredentialAt(req, i) # ""}

FirstCredential(req) ==
    CredentialAt(req, CHOOSE i \in CredentialPositions(req) :
                          \A j \in CredentialPositions(req) : i <= j)

\* C10: pickToken returns the credential of the first location that carries
\* one, in the order Authorization (Bearer), x-auth-token, x-admin-token,
\* cookie token, cookie authToken, cookie adminToken, and a request with a
\* credential in any of them is never answered 'Access token required'.
C10_FirstCredentialIsPicked ==
    (GuardRan /\ CredentialPositions(auth.req) # {})
        => /\ ~auth.token.isNull
           /\ auth.token.text = FirstCredential(auth.req)
           /\ auth.error # "Access token required"

\* the identity the resolver attached
AccountType == LowerOrEmpty(auth.attached.userType)
PermissionRole == LowerOrEmpty(auth.attached.role)
CalledNext == auth.nextCalls = 1 /\ auth.status = 0

\* C11: for a verified identity whose accountType is 'admin',
\* requirePermission(name) calls next() for every permission name and every
\* permissionRole, an absent one included.
C11_AdminHasEveryPermission ==
    (auth.guard = "requirePermission" /\ auth.ok /\ AccountType = "admin")
        => CalledNext

C11_Witness ==
    /\ auth.guard = "requirePermission" /\ auth.ok
    /\ auth.payload["userType"] = Str("Admin")
    /\ auth.attached.role = Undefined
    /\ auth.permission = "reports.export"
    /\ CalledNext

\* the five keys of the permission table
TableRoles ==
    {"super_admin", "content_manager", "sales_manager", "support_executive",
     "admin"}

\* C12: for a verified identity whose accountType is 'staff',
\* requirePermission(name) allows iff the table entry of its permissionRole
\* contains '*' or name; a staff permissionRole that is not one of the five
\* table keys is answered with 403 'Permission required: <name>' for every
\* name.
C12_StaffPermissionFollowsTable ==
    (auth.guard = "requirePermission" /\ auth.ok /\ AccountType = "staff")
        => /\ PermissionRole \in TableRoles =>
                 (CalledNext <=>
                     \/ "*" \in rolePermissions(PermissionRole).items
                     \/ auth.permission \in rolePermissions(PermissionRole).items)
           /\ (PermissionRole = "sales_manager"
                  /\ auth.permission = "sellers.manage") => CalledNext
           /\ (PermissionRole = "sales_manager"
                  /\ auth.permission = "content.manage") => auth.status = 403
           /\ PermissionRole \notin TableRoles =>
                 /\ auth.status = 403
                 /\ auth.error = "Permission required: " \o auth.permission
                 /\ auth.nextCalls = 0

\* isPrivileged as the payload defines it
IsPrivileged(p) ==
    \/ ~Falsy(p["isAdmin"])
    \/ p["admin"] = True
    \/ p["user.isAdmin"] = True
    \/ AccountType \in {"admin", "staff"}

AdminPredicate ==
    \/ AccountType \in {"admin", "staff"}
    \/ PermissionRole \in {"super_admin", "admin"}
    \/ IsPrivileged(auth.payload)

\* C13: requireAdmin calls next() iff the resolver succeeded and
\* (accountType is admin or staff, or permissionRole is super_admin or admin,
\* or isPrivileged is true); every other resolved identity is answered with
\* 403 'Admin access required' and next() is not called.
C13_RequireAdminPredicate ==
    auth.guard = "requireAdmin"
        => /\ CalledNext <=> (auth.ok /\ AdminPredicate)
           /\ (auth.ok /\ ~AdminPredicate) =>
                 /\ auth.status = 403
                 /\ auth.error = "Admin access required"
                 /\ auth.nextCalls = 0

C13_Witness ==
    /\ auth.guard = "requireAdmin" /\ auth.ok
    /\ AccountType = "seller" /\ PermissionRole = "other"
    /\ auth.payload["isAdmin"] = True
    /\ CalledNext

BuyerTypes == {"seller", "user", "agent", "customer", "admin", "staff"}

\* C14: requireBuyer calls next() iff the resolver succeeded and accountType
\* is one of seller, user, agent, customer, admin, staff; a resolved identity
\* with any other or no accountType is answered with 401 'Login with a
\* user/seller account', also when the payload carries isAdmin = true.
C14_RequireBuyerPredicate ==
    auth.guard = "requireBuyer"
        => /\ CalledNext <=> (auth.ok /\ AccountType \in BuyerTypes)
           /\ (auth.ok /\ AccountType \notin BuyerTypes) =>
                 /\ auth.status = 401
                 /\ auth.error = "Login with a user/seller account"
                 /\ auth.nextCalls = 0

C14_Witness ==
    /\ auth.guard = "requireBuyer" /\ auth.ok
    /\ AccountType = "guest"
    /\ auth.payload["isAdmin"] = True
    /\ auth.status = 401 /\ auth.nextCalls = 0

\* C15: every request through an exported guard ends in exactly one of two
\* outcomes: next() is called once and no response is written, or one error
\* response (401 or 403) is written and next() is not called.
C15_ExactlyOneOutcome ==
    GuardRan =>
        \/ (auth.nextCalls = 1 /\ auth.status = 0)
        \/ (auth.nextCalls = 0 /\ auth.status \in {401, 403})

\* ------------------------------------------------------------------------
\* free-ad settings, the check endpoint and the email paths
\* ------------------------------------------------------------------------
\* C16: when the quota decision is computed and no settings document
\* exists, the defaults are persisted as the singleton: after
\* checkUserFreeAdLimit or the gate of createProperty has run, the document
\* with _id 'default' exists.
C16_DefaultsArePersisted ==
    (IsCheckResp \/ (IsCreateResp /\ resp.gated)) => settings.exists

\* C17: updateSettings with a maxFreeAdsPerMonth or numberOfDays that is not
\* a number answers 400 and leaves the settings document as it was; with
\* both numeric it upserts the singleton, and a getSettings that follows
\* returns the submitted maxFreeAdsPerMonth, numberOfDays and isActive.
C17_UpdateValidatesAndRoundTrips ==
    [][ /\ \A m \in BodyMax, d \in BodyDays, a \in BodyActive :
              updateSettings(m, d, a) =>
                 IF m.type # "number" \/ d.type # "number"
                 THEN resp'.status = 400 /\ settings' = settings
                 ELSE /\ resp'.status = 200
                      /\ settings'.exists
                      /\ settings'.maxFreeAdsPerMonth = m.v
                      /\ settings'.numberOfDays = d.v
                      /\ settings'.isActive = a
        /\ (resp.op = "updateSettings" /\ resp.status = 200
               /\ resp'.op = "getSettings")
              => /\ resp'.status = 200
                 /\ resp'.max = resp.max
                 /\ resp'.days = resp.days
                 /\ resp'.active = resp.active ]_vars

C17_Witness ==
    /\ resp.op = "getSettings" /\ resp.status = 200
    /\ resp.max = 1 /\ resp.days = 60 /\ resp.active = "false"
    /\ settings = SettingsDoc(1, 60, "false")

\* C18: in every reachable state the persisted settings document has
\* maxFreeAdsPerMonth >= 1 and numberOfDays >= 1.
C18_PersistedSettingsArePositive ==
    settings.exists =>
        (settings.maxFreeAdsPerMonth >= 1 /\ settings.numberOfDays >= 1)

\* the listings of u created inside the window that ends at time t
WindowOf(u, t) ==
    {d \in OwnedBy(properties, u) :
        d.createdAt >= t - CheckSettings(settings).numberOfDays}

SameCheckAnswer ==
    /\ resp'.remaining = resp.remaining
    /\ resp'.remainingInf = resp.remainingInf
    /\ resp'.used = resp.used
    /\ resp'.canPostFree = resp.canPostFree

\* a step that ends with an answer of checkUserFreeAdLimit has written to
\* neither collection
CheckWritesNothing ==
    resp'.op = "checkUserFreeAdLimit"
        => (properties' = properties /\ settings' = settings)

\* a checkUserFreeAdLimit call for the user whose previous call was the
\* last handler that ran
CheckAgain ==
    /\ IsCheckResp
    /\ resp'.op = "checkUserFreeAdLimit"
    /\ resp'.user = resp.user

\* C19 as stated: repeated checkUserFreeAdLimit calls for one user, with no
\* listing created and no settings change in between, return the same
\* remaining, used and canPostFree and change neither collection.
C19_RepeatedCheckSameAnswer ==
    [][(CheckAgain => SameCheckAnswer) /\ CheckWritesNothing]_vars

\* C19: repeated checkUserFreeAdLimit calls for one user, with no listing
\* created and no settings change in between and with every listing of the
\* user that was inside the window at the earlier call still inside it at
\* the later one, return the same remaining, used and canPostFree, and the
\* calls change neither the properties collection nor the settings.
C19_RepeatedCheckSameAnswerInWindow ==
    [][ /\ (CheckAgain
                /\ WindowOf(resp.user, resp.at) = WindowOf(resp.user, now'))
              => SameCheckAnswer
        /\ CheckWritesNothing ]_vars

C19_Witness ==
    /\ IsCheckResp /\ resp.user = "u2" /\ resp.systemActive
    /\ resp.used = 1 /\ resp.remaining = 1
    /\ resp.at < now
    /\ WindowOf("u2", resp.at) = WindowOf("u2", now)
    /\ ~settings.exists

\* C20: once the insert of createProperty has succeeded the request is
\* answered 201 with the new id, whatever happens in the confirmation email
\* path and in the detached admin notification; updatePropertyApproval
\* answers success after its update whatever happens in the owner email.
C20_EmailFailuresAreSwallowed ==
    [][ /\ (calls' = calls + 1
               /\ (properties' # properties \/ resp'.status \notin {401, 403}))
              => /\ resp'.status = 201
                 /\ resp'.insertedId = nextId
                 /\ \E d \in properties' \ properties : d.id = nextId
        /\ (resp'.op = "updatePropertyApproval" /\ calls' = calls
               /\ (properties' # properties \/ resp'.status \notin {400, 404}))
              => /\ resp'.status = 200
                 /\ \E d \in properties' :
                       /\ d.id = resp'.propertyId
                       /\ d.approvalStatus = resp'.approvalStatus ]_vars

C20_Witness ==
    /\ IsCreateResp /\ resp.status = 201
    /\ resp.email = "sendFails" /\ resp.admin = "lookupFails"
    /\ \E d \in properties : d.id = resp.insertedId /\ d.ownerId = resp.user

\* ------------------------------------------------------------------------
\* apiRequest
\* ------------------------------------------------------------------------
Fetches == Len(api.log)

\* the transient failures the claim names
Transient(o) ==
    /\ o.kind = "error"
    /\ \/ o.name = "AbortError"
       \/ o.message \in {"timeout", "Failed to fetch", "Network Error"}

ApiSafe ==
    /\ Fetches <= 1 + retryAttempts
    /\ Fetches <= 3
    \* an attempt was followed by another one only after a transient failure
    /\ \A i \in 1..Fetches :
          (i < Fetches \/ api.pc \in {"fetch", "delay"}) => Transient(api.log[i])
    \* a response ends the call
    /\ \A i \in 1..Fetches :
          api.log[i].kind = "response" => (i = Fetches /\ api.pc = "done")
    /\ api.pc = "done" =>
          /\ api.result.returned
          /\ api.log[Fetches].kind = "response" =>
                /\ api.result.status = api.log[Fetches].status
                /\ api.result.ok = (api.result.status \in 200..299)
          /\ api.log[Fetches].kind = "error" =>
                (api.result.status = 0 /\ ~api.result.ok)

CheckAnswer(u) ==
    LET s == CheckSettings(settings)
    IN IF ~Truthy(s.isActive)
       THEN CheckInactive(u, s)
       ELSE CheckActive(u, s, CheckCounted(properties, u, s, now))

\* whether the creation gate would turn away a request of u without packageId
GateDecision(u) ==
    LET s == GateSettings(settings)
    IN /\ GateApplies(s, NoPackage)
       /\ GateDenies(s, Cardinality(GateCounted(properties, u, s, now)))

RecordsOf(u) == {i \in 1..Len(freeAdPosts) : freeAdPosts[i].userId = u}

\* C22: a recordFreeAdPost call writes to free_ad_posts only: properties and
\* free_ad_settings stay as they are, and for every user the answer of
\* checkUserFreeAdLimit and the decision of the creation gate are the same
\* after the call as before it.
C22_RecordLeavesQuotaAlone ==
    [][resp'.op = "recordFreeAdPost" =>
         /\ properties' = properties
         /\ settings' = settings
         /\ \A u \in Users : /\ CheckAnswer(u)' = CheckAnswer(u)
                              /\ GateDecision(u)' = GateDecision(u)]_vars

\* two records of a user are on file and the check still counts the one free
\* listing the user has
C22_Witness ==
    \E u \in Users :
        /\ resp.op = "recordFreeAdPost"
        /\ resp.status = 200
        /\ resp.user = u
        /\ Cardinality(RecordsOf(u)) = 2
        /\ CheckAnswer(u).used = 1

\* ------------------------------------------------------------------------
\* Moderation of listings
\* ------------------------------------------------------------------------
ListingWithId(props, id) == CHOOSE d \in props : d.id = id

\* every listing that is live has been approved
ActiveIsApproved ==
    \A d \in properties :
        d.status = "active" =>
            d.approvalStatus = "approved" /\ d.isApproved = TRUE

\* the document a successful createProperty inserts is not live
CreatedIsNotLive ==
    (resp'.op = "createProperty" /\ resp'.status = 201 /\ resp' # resp) =>
        /\ resp'.insertedId \notin IdsOf(properties)
        /\ resp'.insertedId \in IdsOf(properties')
        /\ LET d == ListingWithId(properties', resp'.insertedId)
           IN /\ d.status = "inactive"
              /\ d.isApproved = FALSE
              /\ d.approvalStatus =
                     IF resp'.pkg = NoPackage THEN "pending"
                     ELSE "pending_approval"

\* C23: a listing is never live at creation: createProperty inserts it with
\* status 'inactive', isApproved false and approvalStatus 'pending' (or
\* 'pending_approval' with a packageId); and after any sequence of
\* createProperty and updatePropertyApproval calls every listing with status
\* 'active' has approvalStatus 'approved' and isApproved true.
C23_ActiveOnlyByApproval == []ActiveIsApproved /\ [][CreatedIsNotLive]_vars

\* a created listing went live through an approval, and another review
\* rejected a listing
C23_Witness ==
    /\ resp.op = "updatePropertyApproval"
    /\ resp.status = 200
    /\ \E d \in properties : d.id # 0 /\ d.status = "active"
    /\ \E d \in properties : d.approvalStatus = "rejected"

\* ------------------------------------------------------------------------
\* The public listing
\* ------------------------------------------------------------------------
\* C24: whatever the properties collection holds and whatever the query
\* parameters are (category = buy and category = rent included), every
\* listing that getProperties returns has status 'active' and has
\* approvalStatus 'approved' or no approvalStatus field.
C24_ListedAreActiveAndApproved ==
    \A i \in 1..Len(listed.properties) :
        /\ listed.properties[i].status = "active"
        /\ listed.properties[i].approvalStatus \in {"approved", NoField}

\* ------------------------------------------------------------------------
\* The seller blog handlers
\* ------------------------------------------------------------------------
\* the step is a call of updateSellerBlogPost or deleteSellerBlogPost
SellerEditStep ==
    /\ blog' # blog
    /\ blog'.resp.op \in {"updateSellerBlogPost", "deleteSellerBlogPost"}

\* the post the call names is the caller's and is a draft or awaits review
EditablePost(posts, postId, u) ==
    \E p \in PostWithId(posts, postId) :
        p.author = u /\ p.status \in {"draft", "pending_review"}

\* C25: updateSellerBlogPost and deleteSellerBlogPost change a post only
\* when the caller is its author and its status is draft or pending_review;
\* a post in any other status (published, archived) or of another author
\* is left unchanged and the call is answered with an error.
C25_SellerEditsOnlyOwnUnpublished ==
    [][SellerEditStep =>
         /\ {p \in blog'.posts : p.id # blog'.resp.postId}
               = {p \in blog.posts : p.id # blog'.resp.postId}
         /\ ~EditablePost(blog.posts, blog'.resp.postId, blog'.resp.user) =>
               /\ blog'.posts = blog.posts
               /\ blog'.resp.status >= 400]_vars

\* no post is published and no post carries a publishedAt
NothingPublished ==
    \A p \in blog.posts : p.status # "published" /\ p.publishedAt = NoDate

\* the post a createSellerBlogPost call inserts
SellerCreatesDraft ==
    (blog' # blog /\ blog'.resp.op = "createSellerBlogPost") =>
        \A p \in PostWithId(blog'.posts, blog'.resp.postId) :
            /\ p.status \in {"draft", "pending_review"}
            /\ p.featured = FALSE

\* an updateSellerBlogPost call leaves the status of every post as it was
SellerUpdateKeepsStatus ==
    (blog' # blog /\ blog'.resp.op = "updateSellerBlogPost") =>
        \A p \in blog.posts : \A q \in PostWithId(blog'.posts, p.id) :
            q.status = p.status

\* C30: the seller handlers alone (createSellerBlogPost,
\* updateSellerBlogPost, deleteSellerBlogPost) never produce a post with
\* status 'published' or with a publishedAt: a post is created as draft or
\* pending_review with featured false, and updateSellerBlogPost never
\* changes a status.
C30_SellersNeverPublish ==
    /\ []NothingPublished
    /\ [][SellerCreatesDraft /\ SellerUpdateKeepsStatus]_vars

\* C26: blog slugs are unique: after any sequence of createBlogPost and
\* createSellerBlogPost calls, interleaved between the slug lookup and the
\* insert or not, no two documents of blog_posts have the same slug.
C26_SlugsAreUnique ==
    \A p, q \in blog.posts : p.slug = q.slug => p = q

\* ------------------------------------------------------------------------
\* The check endpoint against the creation gate
\* ------------------------------------------------------------------------
\* a createProperty request without packageId of the user whose check was
\* answered in the step before, nothing having been written in between
CreateRightAfterCheck ==
    /\ resp.op = "checkUserFreeAdLimit"
    /\ calls' = calls + 1
    /\ resp'.op = "createProperty"
    /\ resp'.user = resp.user
    /\ resp'.pkg = NoPackage

\* C27: the check endpoint and the creation gate agree: when
\* checkUserFreeAdLimit reports canPostFree = true, a createProperty request
\* without packageId of the same user, with no write in between, is not
\* rejected with limitReached; when it reports canPostFree = false with
\* systemActive = true, that request is rejected.
C27_CheckAgreesWithGate ==
    [][CreateRightAfterCheck =>
         /\ resp.canPostFree => ~resp'.limitReached
         /\ (~resp.canPostFree /\ resp.systemActive) =>
               (resp'.limitReached /\ resp'.status = 403)]_vars

\* ------------------------------------------------------------------------
\* The cap on free listings, requests processed one at a time
\* ------------------------------------------------------------------------
\* the listings of u without packageId created inside the current window
FreeListingsInWindow(u, s) ==
    {d \in OwnedBy(properties, u) :
        d.packageId = NoPackage /\ d.createdAt >= now - s.numberOfDays}

\* C28: with createProperty requests processed one at a time and settings
\* that are enabled and stay as they are, the number of a user's listings
\* without packageId created inside the current window never exceeds
\* maxFreeAdsPerMonth, whatever free and package creations were made and
\* however much time has passed.
C28_FreeListingsNeverExceedCap ==
    (settings.exists /\ Truthy(settings.isActive)) =>
        \A u \in Users :
            Cardinality(FreeListingsInWindow(u, settings))
                <= settings.maxFreeAdsPerMonth

\* a user is at the cap after time has passed and after a package
\* creation, and the free request made then was turned away
C28_Witness ==
    \E u \in Users :
        /\ settings.exists /\ Truthy(settings.isActive)
        /\ settings.maxFreeAdsPerMonth >= 1
        /\ Cardinality(FreeListingsInWindow(u, settings))
              = settings.maxFreeAdsPerMonth
        /\ \E d \in OwnedBy(properties, u) : d.packageId # NoPackage /\ d.id # 0
        /\ ticks >= 1
        /\ IsCreateResp /\ resp.user = u /\ resp.pkg = NoPackage
        /\ resp.status = 403 /\ resp.limitReached

\* ------------------------------------------------------------------------
\* requirePermission against requireAdmin
\* ------------------------------------------------------------------------
\* the guard's outcome lets the request through
Allows(outcome) == outcome.nextCalls = 1 /\ outcome.status = 0

\* C29: every identity that requirePermission(name) lets through, for any
\* name, is also let through by requireAdmin; and an identity that
\* requireAdmin lets through with an accountType other than admin and staff
\* (through its permissionRole super_admin or admin, or through its isAdmin
\* flag) is denied by requirePermission for every name.
C29_PermissionImpliesAdmin ==
    /\ (auth.guard = "requirePermission" /\ CalledNext)
          => Allows(requireAdminResult(auth.req, auth.payload))
    /\ (auth.guard = "requireAdmin" /\ CalledNext
          /\ AccountType \notin {"admin", "staff"})
          => \A n \in PermissionNames :
                LET outcome == requirePermissionResult(n, auth.req, auth.payload)
                IN ~Allows(outcome) /\ outcome.status = 403

\* a staff member passed requirePermission through the permission table
C29_Witness ==
    /\ auth.guard = "requirePermission" /\ CalledNext
    /\ AccountType = "staff" /\ PermissionRole = "sales_manager"
    /\ auth.permission = "sellers.manage"

\* a seller whose permissionRole is super_admin passed requireAdmin
SellerWithAdminRolePassed ==
    /\ auth.guard = "requireAdmin" /\ CalledNext
    /\ AccountType = "seller" /\ PermissionRole = "super_admin"
    /\ Falsy(auth.payload["isAdmin"])

====
